---- MODULE Spec2Model ----
(***************************************************************************)
(* A model of tinychain's transactional storage substrate: the block cache *)
(* (host/src/fs/cache.rs) and the transactional file layered over it       *)
(* (host/src/fs/file.rs).                                                   *)
(***************************************************************************)
EXTENDS Integers, Sequences, FiniteSets, TLC

VARIABLES
    cache,            \* cache.rs Inner: size, max_size, entries, lfu
    fsys,             \* the host filesystem: files (path -> bytes) and dirs
    overflow_checks,  \* TRUE: integer overflow panics; FALSE: it wraps
    handles,          \* per path, the CacheLock clones callers still hold
    last,             \* the last operation and what it returned
    listing,          \* per File, the TxnLock over its listing
    mutated,          \* per File, the TxnLock over its mutated set
    file_path,        \* per File, its path
    nops,             \* how many operations have been called so far
    phase,            \* per File and transaction: open, committed, finalized
                      \* (after its commit) or rolledback (finalized without)
    created,          \* per File, transaction and block the transaction
                      \* created: the value the transaction last gave it
    stale,            \* the (File, transaction) pairs whose pending version of
                      \* the listing was opened before a smaller one committed
    clock,            \* Host::time: the last timestamp the host has given
    txns,             \* the Transactions, in the order they were made
    stores,           \* per resource, its StoreState
    calls,            \* the commit / finalize calls made on resources, in order
    array,            \* an Array, the Bytes made of it and what they parse to
    rebase,           \* a transform of tensor/transform.rs and the last
                      \* coordinate it was asked to map or invert
    dense,            \* a BlockListFile, its Broadcast view and the answer
                      \* to the last call on either
    collator,         \* a Collator, the keys it is given and the position
                      \* of the binary search it runs over them
    kernel,           \* a request the kernel executes: the transaction's
                      \* owner, the cluster, and the calls execute has made
    sparse,           \* a sparse tensor and what its dense view streams
    summed,           \* a BlockTensor of dense.rs and the answer of sum
    store             \* a Store of internal/store.rs and the answer to the
                      \* last call on it

vars ==
    <<cache, fsys, overflow_checks, handles, last, listing, mutated, file_path,
      nops, phase, created, stale, clock, txns, stores, calls, array, rebase,
      dense, collator, kernel, sparse, summed, store>>

\* the state of the cache and of the Files over it
storeVars ==
    <<cache, fsys, overflow_checks, handles, last, listing, mutated, file_path,
      nops, phase, created, stale>>

\* the same but the count of operations
storeRest ==
    <<cache, fsys, overflow_checks, handles, last, listing, mutated, file_path,
      phase, created, stale>>

\* the state of the transaction coordinator and of its resources
coordVars == <<clock, txns, stores, calls>>

\* the state of the tensor layer
tensorVars == <<array, rebase, dense>>

\* the state of the index layer, of the kernel, of the dense views and
\* reductions, and of the block store
indexVars == <<collator, kernel, sparse, summed, store>>

\* the same but one of them
collatorRest == <<kernel, sparse, summed, store>>

kernelRest == <<collator, sparse, summed, store>>

sparseRest == <<collator, kernel, summed, store>>

summedRest == <<collator, kernel, sparse, store>>

storeOnlyRest == <<collator, kernel, sparse, summed>>

\* the state of the layers above the Files
upperVars == <<coordVars, tensorVars, indexVars>>

(***************************************************************************)
(* Bounds of the model.                                                     *)
(***************************************************************************)
\* block values are 0..MaxBlock
MaxBlock == 1
\* the max_size the cache is constructed with, in bytes
MaxSize == 1
\* operations called on the cache in one run of the cache on its own
MaxCacheOps == 5
\* operations called on the files in one run
MaxFileOps == 4

Blocks == 0..MaxBlock

(***************************************************************************)
(* Finite maps.                                                             *)
(***************************************************************************)
MapPut(f, k, v) == [x \in (DOMAIN f) \cup {k} |-> IF x = k THEN v ELSE f[x]]

MapDel(f, k) == [x \in (DOMAIN f) \ {k} |-> f[x]]

EmptyMap == [x \in {} |-> 0]

(***************************************************************************)
(* BlockData: a block is serialized to bytes and parsed back.  A block n is *)
(* written as its binary digits, least significant first, one per byte.    *)
(***************************************************************************)
RECURSIVE ToBytes(_)
ToBytes(n) == IF n = 0 THEN <<>> ELSE <<n % 2>> \o ToBytes(n \div 2)

RECURSIVE FromBytes(_)
FromBytes(bs) == IF bs = <<>> THEN 0 ELSE Head(bs) + 2 * FromBytes(Tail(bs))

BlockSize(b) == Len(ToBytes(b))

(***************************************************************************)
(* usize arithmetic.  A negative number v stands for 2^64 + v, the value a *)
(* wrapped subtraction leaves; sums and differences are then the integers' *)
(* and only the comparisons and the overflow tests differ.                  *)
(***************************************************************************)
UGreater(a, b) == IF a < 0 THEN b >= 0 \/ a > b ELSE b >= 0 /\ a > b

USubOverflows(a, b) == UGreater(b, a)

UAddOverflows(a, b) == a < 0 /\ a + b >= 0

(***************************************************************************)
(* The filesystem (tokio::fs as the cache and the file use it).             *)
(***************************************************************************)
Parent(path) == SubSeq(path, 1, Len(path) - 1)

IsPrefix(p, q) == Len(p) <= Len(q) /\ SubSeq(q, 1, Len(p)) = p

PathExists(fs, path) == path \in DOMAIN fs.files \/ path \in fs.dirs

\* fs::write(path, bytes): fails when the parent directory is missing
FsCanWrite(fs, path) == Parent(path) \in fs.dirs /\ path \notin fs.dirs

FsWrite(fs, path, bytes) == [fs EXCEPT !.files = MapPut(fs.files, path, bytes)]

(***************************************************************************)
(* LFU (cache.rs 202-239).  entries maps an id to its rank, priority is    *)
(* the Vec of ids; ranks are 0-based as in the source.  Each operation     *)
(* returns the LFU it leaves and whether it panicked.                       *)
(***************************************************************************)
LfuNew == [entries |-> EmptyMap, priority |-> <<>>]

SeqSwap(s, i, j) == [s EXCEPT ![i + 1] = s[j + 1], ![j + 1] = s[i + 1]]

SeqRemove(s, i) == SubSeq(s, 1, i) \o SubSeq(s, i + 2, Len(s))

LfuBump(lfu, id) ==
    IF id \notin DOMAIN lfu.entries
    THEN [lfu |-> lfu, panic |-> TRUE]
    ELSE LET r == lfu.entries[id]
             e1 == MapDel(lfu.entries, id)
         IN IF r = 0
            THEN [lfu |-> lfu, panic |-> FALSE]
            ELSE IF r - 1 >= Len(lfu.priority)
            THEN [lfu |-> [lfu EXCEPT !.entries = e1], panic |-> TRUE]
            ELSE LET l_id == lfu.priority[(r - 1) + 1]
                 IN IF l_id \notin DOMAIN e1
                    THEN [lfu |-> [lfu EXCEPT !.entries = e1], panic |-> TRUE]
                    ELSE LET l == e1[l_id]
                             e2 == MapDel(e1, l_id)
                         IN IF l >= Len(lfu.priority) \/ r >= Len(lfu.priority)
                            THEN [lfu |-> [lfu EXCEPT !.entries = e2],
                                  panic |-> TRUE]
                            ELSE [lfu |-> [entries |-> MapPut(MapPut(e2, l_id, r), id, l),
                                           priority |-> SeqSwap(lfu.priority, l, r)],
                                  panic |-> FALSE]

LfuInsert(lfu, id) ==
    IF id \in DOMAIN lfu.entries
    THEN [lfu |-> lfu, panic |-> TRUE]
    ELSE [lfu |-> [entries |-> MapPut(lfu.entries, id, Len(lfu.priority)),
                   priority |-> Append(lfu.priority, id)],
          panic |-> FALSE]

LfuRemove(lfu, id) ==
    IF id \notin DOMAIN lfu.entries
    THEN [lfu |-> lfu, panic |-> FALSE]
    ELSE LET i == lfu.entries[id]
             e1 == MapDel(lfu.entries, id)
         IN IF i >= Len(lfu.priority)
            THEN [lfu |-> [lfu EXCEPT !.entries = e1], panic |-> TRUE]
            ELSE [lfu |-> [entries |-> e1, priority |-> SeqRemove(lfu.priority, i)],
                  panic |-> FALSE]

(***************************************************************************)
(* CacheLock (cache.rs 52-89): a block behind a lock, with the shared      *)
(* reference count that clone increments and drop decrements.  new() sets  *)
(* the count to 0.                                                          *)
(***************************************************************************)
CacheLockNew(value) == [block |-> value, rc |-> 0]

CacheLockClone(lock) == [lock EXCEPT !.rc = lock.rc + 1]

\* drop: `-= 1` on a usize; at 0 it overflows
CacheLockDropOverflows(lock) == lock.rc = 0

CacheLockDrop(lock) == [lock EXCEPT !.rc = lock.rc - 1]

(***************************************************************************)
(* Cache (cache.rs 103-200).  Each operation is a function of the cache     *)
(* (and the filesystem) that returns what it leaves behind and `res`:      *)
(* what the caller gets, "panic" when the call panics part-way.  `oc` says *)
(* whether integer overflow panics (a debug build) or wraps.                *)
(***************************************************************************)
CacheNew(max_size) ==
    [size |-> 0, max_size |-> max_size, entries |-> EmptyMap, lfu |-> LfuNew]

CacheRead(c, fs, path, oc) ==
    IF path \in DOMAIN c.entries
    THEN LET lock == CacheLockClone(c.entries[path])
             b == LfuBump(c.lfu, path)
         IN IF b.panic
            THEN [cache |-> [c EXCEPT !.lfu = b.lfu], res |-> "panic", block |-> 0]
            ELSE [cache |-> [c EXCEPT !.lfu = b.lfu,
                                      !.entries = MapPut(c.entries, path, lock)],
                  res |-> "some", block |-> lock.block]
    ELSE IF path \in fs.dirs
    THEN [cache |-> c, res |-> "err", block |-> 0]
    ELSE IF path \notin DOMAIN fs.files
    THEN [cache |-> c, res |-> "none", block |-> 0]
    ELSE LET bytes == fs.files[path]
             size == Len(bytes)
             cached == CacheLockClone(CacheLockNew(FromBytes(bytes)))
             ins == LfuInsert(c.lfu, path)
         IN IF oc /\ UAddOverflows(c.size, size)
            THEN [cache |-> c, res |-> "panic", block |-> 0]
            ELSE IF ins.panic
            THEN [cache |-> [c EXCEPT !.size = c.size + size],
                  res |-> "panic", block |-> 0]
            ELSE [cache |-> [c EXCEPT !.size = c.size + size,
                                      !.lfu = ins.lfu,
                                      !.entries = MapPut(c.entries, path, cached)],
                  res |-> "some", block |-> cached.block]

CacheWrite(c, path, block, oc) ==
    LET size == BlockSize(block)
        had == path \in DOMAIN c.entries
        old_size == IF had THEN BlockSize(c.entries[path].block) ELSE 0
        c1 == IF had THEN [c EXCEPT !.entries = MapDel(c.entries, path)] ELSE c
        shrink == had /\ UGreater(old_size, c.size)
        c2 == IF shrink THEN [c1 EXCEPT !.size = c.size - old_size] ELSE c1
        ins == IF had THEN [lfu |-> c.lfu, panic |-> FALSE] ELSE LfuInsert(c.lfu, path)
        b == LfuBump(ins.lfu, path)
        lock == CacheLockClone(CacheLockNew(block))
    IN IF had /\ oc /\ CacheLockDropOverflows(c.entries[path])
       THEN [cache |-> c1, res |-> "panic"]
       ELSE IF shrink /\ oc /\ USubOverflows(c.size, old_size)
       THEN [cache |-> c1, res |-> "panic"]
       ELSE IF ins.panic
       THEN [cache |-> c2, res |-> "panic"]
       ELSE IF b.panic
       THEN [cache |-> [c2 EXCEPT !.lfu = b.lfu], res |-> "panic"]
       ELSE IF oc /\ UAddOverflows(c2.size, size)
       THEN [cache |-> [c2 EXCEPT !.lfu = b.lfu,
                                  !.entries = MapPut(c2.entries, path,
                                                     CacheLockDrop(lock))],
             res |-> "panic"]
       ELSE [cache |-> [c2 EXCEPT !.lfu = b.lfu,
                                  !.entries = MapPut(c2.entries, path, lock),
                                  !.size = c2.size + size],
             res |-> "ok"]

CacheRemove(c, path, oc) ==
    IF path \notin DOMAIN c.entries
    THEN [cache |-> c, res |-> "ok"]
    ELSE LET old_size == BlockSize(c.entries[path].block)
             c1 == [c EXCEPT !.entries = MapDel(c.entries, path)]
             c2 == IF UGreater(c.size, old_size)
                   THEN [c1 EXCEPT !.size = c.size - old_size]
                   ELSE c1
             rm == LfuRemove(c.lfu, path)
         IN IF oc /\ CacheLockDropOverflows(c.entries[path])
            THEN [cache |-> c1, res |-> "panic"]
            ELSE [cache |-> [c2 EXCEPT !.lfu = rm.lfu],
                  res |-> IF rm.panic THEN "panic" ELSE "ok"]

CacheSync(c, fs, path) ==
    IF path \notin DOMAIN c.entries
    THEN [fs |-> fs, res |-> "ok"]
    ELSE IF FsCanWrite(fs, path)
    THEN [fs |-> FsWrite(fs, path, ToBytes(c.entries[path].block)), res |-> "ok"]
    ELSE [fs |-> fs, res |-> "err"]

(***************************************************************************)
(* More of the filesystem: what file.rs calls.                              *)
(***************************************************************************)
Prefixes(path) == {SubSeq(path, 1, n) : n \in 1..Len(path)}

\* create_parent / create_dir_all: the directory and every missing ancestor
FsCreateDirAll(fs, dir) == [fs EXCEPT !.dirs = @ \cup Prefixes(dir)]

\* create_dir: fails when the parent is missing
FsCanCreateDir(fs, dir) == Parent(dir) \in fs.dirs /\ dir \notin DOMAIN fs.files

FsCreateDir(fs, dir) == [fs EXCEPT !.dirs = @ \cup {dir}]

\* copy(from, to): `from` is a file and the parent of `to` exists
FsCanCopy(fs, from, to) ==
    from \in DOMAIN fs.files /\ Parent(to) \in fs.dirs /\ to \notin fs.dirs

FsCopy(fs, from, to) == [fs EXCEPT !.files = MapPut(@, to, fs.files[from])]

FsRemoveDirAll(fs, dir) ==
    [files |-> [q \in {q \in DOMAIN fs.files : ~IsPrefix(dir, q)} |-> fs.files[q]],
     dirs |-> {q \in fs.dirs : ~IsPrefix(dir, q)}]

(***************************************************************************)
(* TxnLock<Mutable<T>> (tc_transact::lock, as the specification describes  *)
(* it).  versions: the committed values by the id of the transaction that  *)
(* committed them (0: the value the lock was created with); pending: the   *)
(* uncommitted value of each writer; active: the transactions that have    *)
(* read or written and are not finalized.                                   *)
(***************************************************************************)
MaxOf(S) == CHOOSE x \in S : \A y \in S : y <= x

TxnLockNew(value) ==
    [versions |-> [k \in {0} |-> value], pending |-> EmptyMap, active |-> {}]

\* the value as of the largest committed transaction <= txn_id
TxnLockAsOf(lock, txn_id) ==
    lock.versions[MaxOf({k \in DOMAIN lock.versions : k <= txn_id})]

\* every version that txn_id could read has been forgotten
TxnLockForgotten(lock, txn_id) == \A k \in DOMAIN lock.versions : k > txn_id

TxnLockView(lock, txn_id) ==
    IF txn_id \in DOMAIN lock.pending
    THEN lock.pending[txn_id]
    ELSE TxnLockAsOf(lock, txn_id)

\* read suspends while a writer with a smaller id is pending
TxnLockCanRead(lock, txn_id) == \A w \in DOMAIN lock.pending : ~(w < txn_id)

TxnLockRead(lock, txn_id) == [lock EXCEPT !.active = @ \cup {txn_id}]

\* write suspends while a reader or writer with a smaller id remains
TxnLockCanWrite(lock, txn_id) == \A a \in lock.active : ~(a < txn_id)

\* writing with an id smaller than the largest committed one is a Conflict
TxnLockWriteConflicts(lock, txn_id) == txn_id < MaxOf(DOMAIN lock.versions)

TxnLockWrite(lock, txn_id) ==
    [lock EXCEPT !.active = @ \cup {txn_id},
                 !.pending = IF txn_id \in DOMAIN @
                             THEN @
                             ELSE MapPut(@, txn_id, TxnLockAsOf(lock, txn_id))]

\* the holder of the write guard assigns the value
TxnLockSet(lock, txn_id, value) == [lock EXCEPT !.pending[txn_id] = value]

TxnLockCommit(lock, txn_id) ==
    IF txn_id \in DOMAIN lock.pending
    THEN [lock EXCEPT !.versions = MapPut(@, txn_id, lock.pending[txn_id]),
                      !.pending = MapDel(@, txn_id)]
    ELSE lock

TxnLockFinalize(lock, txn_id) ==
    LET older == {k \in DOMAIN lock.versions : k <= txn_id}
        keep == IF older = {} THEN DOMAIN lock.versions
                ELSE {k \in DOMAIN lock.versions : k >= MaxOf(older)}
    IN [versions |-> [k \in keep |-> lock.versions[k]],
        pending |-> MapDel(lock.pending, txn_id),
        active |-> lock.active \ {txn_id}]

(***************************************************************************)
(* File (file.rs).  A state `st` is the record of the cache, the           *)
(* filesystem and each File's two TxnLocks; `fp` is the File's path.  Each *)
(* operation returns the state it leaves and `res`.  A call that would     *)
(* suspend on a TxnLock is not made: the actions below wait until it can   *)
(* proceed.                                                                 *)
(***************************************************************************)
VERSION == ".versions"

TxnName(txn_id) == ToString(txn_id)

canonical(file_path_, block_id) == file_path_ \o <<block_id>>

fs_path(mount_point, name) == mount_point \o <<name>>

version_path(file_path_, txn_id) ==
    Parent(file_path_) \o <<VERSION, TxnName(txn_id)>>

\* block_path with the transaction left out of the path
block_path_shared(file_path_, txn_id, block_id) ==
    Parent(file_path_) \o <<VERSION, block_id>>

block_path(file_path_, txn_id, block_id) ==
    version_path(file_path_, txn_id) \o <<block_id>>

\* the caller drops the handle an operation gave it
DropAt(c, path) == [c EXCEPT !.entries[path] = CacheLockDrop(@)]

FileGetBlockLock(st, f, fp, txn_id, block_id, oc) ==
    LET st1 == [st EXCEPT !.listing[f] = TxnLockRead(@, txn_id)]
        path == block_path(fp, txn_id, block_id)
        source_path == fs_path(fp, block_id)
        fs1 == IF PathExists(st.fs, path)
               THEN st.fs
               ELSE FsCopy(FsCreateDirAll(st.fs, Parent(path)), source_path, path)
        r == CacheRead(st.cache, fs1, path, oc)
    IN IF TxnLockForgotten(st.listing[f], txn_id)
       THEN [st |-> st, res |-> "conflict", block |-> 0]
       ELSE IF block_id \notin TxnLockView(st.listing[f], txn_id)
       THEN [st |-> st1, res |-> "not_found", block |-> 0]
       ELSE IF ~PathExists(st.fs, path) /\ ~PathExists(st.fs, source_path)
       THEN [st |-> st1, res |-> "panic", block |-> 0]
       ELSE IF ~PathExists(st.fs, path) /\ source_path \notin DOMAIN st.fs.files
       THEN [st |-> [st1 EXCEPT !.fs = FsCreateDirAll(st.fs, Parent(path))],
             res |-> "err", block |-> 0]
       ELSE [st |-> [st1 EXCEPT !.fs = fs1, !.cache = r.cache],
             res |-> r.res, block |-> r.block]

FileBlockExists(st, f, txn_id, name) ==
    IF TxnLockForgotten(st.listing[f], txn_id)
    THEN [st |-> st, res |-> "conflict"]
    ELSE [st |-> [st EXCEPT !.listing[f] = TxnLockRead(@, txn_id)],
          res |-> IF name \in TxnLockView(st.listing[f], txn_id)
                  THEN "true" ELSE "false"]

FileCreateBlock(st, f, fp, txn_id, name, initial_value, oc) ==
    LET path == block_path(fp, txn_id, name)
        l1 == TxnLockWrite(st.listing[f], txn_id)
        m1 == TxnLockWrite(st.mutated[f], txn_id)
        w == CacheWrite(st.cache, path, initial_value, oc)
    IN IF TxnLockWriteConflicts(st.listing[f], txn_id)
       THEN [st |-> st, res |-> "conflict"]
       ELSE IF TxnLockWriteConflicts(st.mutated[f], txn_id)
       THEN [st |-> [st EXCEPT !.listing[f] = l1], res |-> "conflict"]
       ELSE IF w.res # "ok"
       THEN [st |-> [st EXCEPT !.listing[f] = l1, !.mutated[f] = m1,
                               !.cache = w.cache],
             res |-> "panic"]
       ELSE [st |-> [st EXCEPT
                        !.listing[f] = TxnLockSet(l1, txn_id,
                                           l1.pending[txn_id] \cup {name}),
                        !.mutated[f] = TxnLockSet(m1, txn_id,
                                           m1.pending[txn_id] \cup {name}),
                        !.cache = DropAt(w.cache, path)],
             res |-> "ok"]

FileGetBlock(st, f, fp, txn_id, name, oc) ==
    LET g == FileGetBlockLock(st, f, fp, txn_id, name, oc)
        path == block_path(fp, txn_id, name)
    IN IF g.res = "some"
       THEN [st |-> [g.st EXCEPT !.cache = DropAt(@, path)],
             res |-> "ok", block |-> g.block]
       ELSE IF g.res = "none"
       THEN [st |-> g.st, res |-> "not_found", block |-> 0]
       ELSE g

\* get_block_mut, and the caller assigning `value` through the write handle
\* it is given before dropping it
FileGetBlockMut(st, f, fp, txn_id, name, value, oc) ==
    LET g == FileGetBlockLock(st, f, fp, txn_id, name, oc)
        path == block_path(fp, txn_id, name)
        m1 == TxnLockWrite(g.st.mutated[f], txn_id)
        dropped == DropAt(g.st.cache, path)
    IN IF g.res = "some"
       THEN IF TxnLockWriteConflicts(g.st.mutated[f], txn_id)
            THEN [st |-> [g.st EXCEPT !.cache = dropped],
                  res |-> "conflict", block |-> 0]
            ELSE [st |-> [g.st EXCEPT
                             !.mutated[f] = TxnLockSet(m1, txn_id,
                                                m1.pending[txn_id] \cup {name}),
                             !.cache = [dropped EXCEPT
                                           !.entries[path].block = value]],
                  res |-> "ok", block |-> value]
       ELSE IF g.res = "none"
       THEN [st |-> g.st, res |-> "not_found", block |-> 0]
       ELSE g

\* the blocks of mutated.drain(), committed in the order `ids`; the first
\* one that fails ends the commit
RECURSIVE CommitBlocks(_, _, _, _, _)
CommitBlocks(c, fs, fp, txn_id, ids) ==
    IF ids = <<>>
    THEN [fs |-> fs, ok |-> TRUE]
    ELSE LET version == block_path(fp, txn_id, Head(ids))
             dest == canonical(fp, Head(ids))
             s == CacheSync(c, fs, version)
         IN IF s.res # "ok" \/ ~PathExists(s.fs, version)
               \/ ~FsCanCopy(s.fs, version, dest)
            THEN [fs |-> s.fs, ok |-> FALSE]
            ELSE CommitBlocks(c, FsCopy(s.fs, version, dest), fp, txn_id, Tail(ids))

\* commit without `self.listing.commit(txn_id)`
FileCommitMutatedOnly(st, f, fp, txn_id, ids) ==
    LET made == ~PathExists(st.fs, fp)
        fs1 == IF made THEN FsCreateDir(st.fs, fp) ELSE st.fs
        m1 == TxnLockWrite(st.mutated[f], txn_id)
        m2 == TxnLockSet(m1, txn_id, {})
        cb == CommitBlocks(st.cache, fs1, fp, txn_id, ids)
    IN IF made /\ ~FsCanCreateDir(st.fs, fp)
       THEN [st |-> st, res |-> "panic"]
       ELSE IF TxnLockWriteConflicts(st.mutated[f], txn_id)
       THEN [st |-> [st EXCEPT !.fs = fs1], res |-> "panic"]
       ELSE IF ~cb.ok
       THEN [st |-> [st EXCEPT !.fs = cb.fs, !.mutated[f] = m2], res |-> "panic"]
       ELSE [st |-> [st EXCEPT !.fs = cb.fs,
                               !.mutated[f] = TxnLockCommit(m2, txn_id)],
             res |-> "ok"]

FileCommit(st, f, fp, txn_id, ids) ==
    LET made == ~PathExists(st.fs, fp)
        fs1 == IF made THEN FsCreateDir(st.fs, fp) ELSE st.fs
        m1 == TxnLockWrite(st.mutated[f], txn_id)
        m2 == TxnLockSet(m1, txn_id, {})
        cb == CommitBlocks(st.cache, fs1, fp, txn_id, ids)
    IN IF made /\ ~FsCanCreateDir(st.fs, fp)
       THEN [st |-> st, res |-> "panic"]
       ELSE IF TxnLockWriteConflicts(st.mutated[f], txn_id)
       THEN [st |-> [st EXCEPT !.fs = fs1], res |-> "panic"]
       ELSE IF ~cb.ok
       THEN [st |-> [st EXCEPT !.fs = cb.fs, !.mutated[f] = m2], res |-> "panic"]
       ELSE [st |-> [st EXCEPT !.fs = cb.fs,
                               !.listing[f] = TxnLockCommit(@, txn_id),
                               !.mutated[f] = TxnLockCommit(m2, txn_id)],
             res |-> "ok"]

\* the cached versions of the listing, removed in the order `ids`
RECURSIVE RemoveBlocks(_, _, _, _, _)
RemoveBlocks(c, fp, txn_id, ids, oc) ==
    IF ids = <<>>
    THEN [cache |-> c, ok |-> TRUE]
    ELSE LET r == CacheRemove(c, block_path(fp, txn_id, Head(ids)), oc)
         IN IF r.res # "ok"
            THEN [cache |-> r.cache, ok |-> FALSE]
            ELSE RemoveBlocks(r.cache, fp, txn_id, Tail(ids), oc)

FileFinalize(st, f, fp, txn_id, ids, oc) ==
    LET l1 == TxnLockWrite(st.listing[f], txn_id)
        rb == RemoveBlocks(st.cache, fp, txn_id, ids, oc)
        version == version_path(fp, txn_id)
        fs1 == IF PathExists(st.fs, version)
               THEN FsRemoveDirAll(st.fs, version)
               ELSE st.fs
    IN IF TxnLockWriteConflicts(st.listing[f], txn_id)
       THEN [st |-> st, res |-> "panic"]
       ELSE IF ~rb.ok
       THEN [st |-> [st EXCEPT !.listing[f] = l1, !.cache = rb.cache],
             res |-> "panic"]
       ELSE [st |-> [st EXCEPT !.cache = rb.cache, !.fs = fs1,
                               !.listing[f] = TxnLockFinalize(l1, txn_id),
                               !.mutated[f] = TxnLockFinalize(@, txn_id)],
             res |-> "ok"]

(***************************************************************************)
(* The transaction coordinator (src/transaction.rs) and the Store it       *)
(* commits (src/internal/store.rs).                                        *)
(***************************************************************************)
TransactionIdNew(timestamp, nonce) == [timestamp |-> timestamp, nonce |-> nonce]

\* Ord::cmp
TransactionIdCmp(a, b) ==
    IF a.timestamp = b.timestamp
    THEN IF a.nonce < b.nonce THEN "less"
         ELSE IF a.nonce = b.nonce THEN "equal" ELSE "greater"
    ELSE IF a.timestamp < b.timestamp THEN "less" ELSE "greater"

\* Queue: push at the back, pop from the back
QueueNew == <<>>

QueuePush(q, x) == Append(q, x)

QueuePop(q) == [queue |-> SubSeq(q, 1, Len(q) - 1), item |-> q[Len(q)]]

\* Transaction::new; tasks: the futures commit has handed to join_all;
\* pc: idle, committing or returned; commits: the calls of commit that
\* have returned; fresh: mutate was called since commit last began
TransactionNew(id) ==
    [id |-> id, mutated |-> QueueNew, tasks |-> <<>>, pc |-> "idle",
     commits |-> 0, fresh |-> FALSE]

TransactionMutate(t, state) ==
    [t EXCEPT !.mutated = QueuePush(@, state), !.fresh = TRUE]

\* `while let Some(state) = self.mutated.pop() { tasks.push(..) }`
RECURSIVE PopAll(_, _)
PopAll(q, tasks) ==
    IF q = <<>>
    THEN tasks
    ELSE PopAll(QueuePop(q).queue, Append(tasks, QueuePop(q).item))

\* Transaction::commit, were it to read the queue and leave it as it is
TransactionCommitKeep(t) ==
    [t EXCEPT !.tasks = PopAll(t.mutated, <<>>),
              !.pc = "committing",
              !.fresh = FALSE]

\* Transaction::commit up to join_all
TransactionCommit(t) ==
    [t EXCEPT !.tasks = PopAll(t.mutated, <<>>),
              !.mutated = QueueNew,
              !.pc = "committing",
              !.fresh = FALSE]

StoreStateNew == [blocks |-> EmptyMap, txn_cache |-> EmptyMap]

StoreContainsBlock(s, txn_id, block_id) ==
    IF txn_id \in DOMAIN s.txn_cache
    THEN block_id \in DOMAIN s.txn_cache[txn_id]
    ELSE block_id \in DOMAIN s.blocks

StoreNewBlock(s, txn_id, block_id, initial_value) ==
    LET old == IF txn_id \in DOMAIN s.txn_cache THEN s.txn_cache[txn_id] ELSE EmptyMap
    IN IF StoreContainsBlock(s, txn_id, block_id)
       THEN [store |-> s, res |-> "bad_request"]
       ELSE [store |-> [s EXCEPT !.txn_cache =
                           MapPut(@, txn_id, MapPut(old, block_id, initial_value))],
             res |-> "ok"]

StoreAppend(s, txn_id, block_id, data) ==
    LET old == IF txn_id \in DOMAIN s.txn_cache THEN s.txn_cache[txn_id] ELSE EmptyMap
        put(blocks) == [s EXCEPT !.txn_cache = MapPut(@, txn_id, blocks)]
    IN IF block_id \in DOMAIN old
       THEN [store |-> put(MapPut(old, block_id, old[block_id] \o data)), res |-> "ok"]
       ELSE IF block_id \in DOMAIN s.blocks
       THEN [store |-> put(MapPut(old, block_id, s.blocks[block_id] \o data)),
             res |-> "ok"]
       ELSE [store |-> put(old), res |-> "not_found"]

\* Transact::commit for Store
StoreCommit(s, txn_id) ==
    IF txn_id \in DOMAIN s.txn_cache
    THEN [blocks |-> [b \in (DOMAIN s.blocks) \cup (DOMAIN s.txn_cache[txn_id]) |->
                         IF b \in DOMAIN s.txn_cache[txn_id]
                         THEN s.txn_cache[txn_id][b]
                         ELSE s.blocks[b]],
          txn_cache |-> MapDel(s.txn_cache, txn_id)]
    ELSE s

\* the resources a Transaction can mutate
Resources == {"r1", "r2"}

\* no Transaction has been made
CoordIdle ==
    /\ clock = 0
    /\ txns = <<>>
    /\ stores = [r \in Resources |-> StoreStateNew]
    /\ calls = <<>>

\* no tensor has been made
TensorIdle ==
    /\ array = [op |-> "none"]
    /\ rebase = [op |-> "none"]
    /\ dense = [op |-> "none"]

\* all of indexVars but v are idle
IndexIdleBut(v) ==
    /\ v = "collator" \/ collator = [op |-> "none"]
    /\ v = "kernel" \/ kernel = [op |-> "none"]
    /\ v = "sparse" \/ sparse = [op |-> "none"]
    /\ v = "summed" \/ summed = [op |-> "none"]
    /\ v = "store" \/ store = [op |-> "none"]

\* no Collator has been made, and nothing else above
IndexIdle == IndexIdleBut("")

UpperIdle == CoordIdle /\ TensorIdle /\ IndexIdle

(***************************************************************************)
(* The cache on its own: callers read, write, remove and sync blocks at    *)
(* the paths of one directory, and drop the handles they were given.       *)
(***************************************************************************)
CacheDir == <<"d">>

CachePaths == {<<"d", "a">>, <<"d", "b">>, <<"d", "c">>}

NoFiles == [f \in {} |-> <<>>]

InitCache ==
    /\ cache = CacheNew(MaxSize)
    /\ fsys = [files |-> NoFiles, dirs |-> {CacheDir}]
    /\ overflow_checks \in BOOLEAN
    /\ handles = [p \in CachePaths |-> 0]
    /\ last = [op |-> "new", res |-> "ok", inserted |-> 0]
    /\ listing = EmptyMap
    /\ mutated = EmptyMap
    /\ file_path = EmptyMap
    /\ nops = 0
    /\ phase = EmptyMap
    /\ created = EmptyMap
    /\ stale = {}
    /\ UpperIdle

\* the caller keeps the handle it is given (keep), or drops it at once
Read(p, keep) ==
    LET r == CacheRead(cache, fsys, p, overflow_checks)
        got == r.res = "some"
        loaded == got /\ p \notin DOMAIN cache.entries
    IN /\ nops < MaxCacheOps
       /\ nops' = nops + 1
       /\ cache' = IF got /\ ~keep
                   THEN [r.cache EXCEPT !.entries[p] = CacheLockDrop(@)]
                   ELSE r.cache
       /\ handles' = IF got /\ keep THEN [handles EXCEPT ![p] = @ + 1] ELSE handles
       /\ last' = [op |-> "read", res |-> r.res,
                   inserted |-> IF loaded THEN Len(fsys.files[p]) ELSE last.inserted]
       /\ UNCHANGED <<fsys, overflow_checks, listing, mutated, file_path, phase, created, stale, upperVars>>

Write(p, b, keep) ==
    LET w == CacheWrite(cache, p, b, overflow_checks)
    IN /\ nops < MaxCacheOps
       /\ nops' = nops + 1
       /\ cache' = IF w.res = "ok" /\ ~keep
                   THEN [w.cache EXCEPT !.entries[p] = CacheLockDrop(@)]
                   ELSE w.cache
       /\ handles' = [handles EXCEPT ![p] = IF w.res = "ok" /\ keep THEN 1 ELSE 0]
       /\ last' = [op |-> "write", res |-> w.res,
                   inserted |-> IF w.res = "ok" THEN BlockSize(b) ELSE last.inserted]
       /\ UNCHANGED <<fsys, overflow_checks, listing, mutated, file_path, phase, created, stale, upperVars>>

Remove(p) ==
    LET r == CacheRemove(cache, p, overflow_checks)
    IN /\ nops < MaxCacheOps
       /\ nops' = nops + 1
       /\ cache' = r.cache
       /\ handles' = [handles EXCEPT ![p] = 0]
       /\ last' = [op |-> "remove", res |-> r.res, inserted |-> last.inserted]
       /\ UNCHANGED <<fsys, overflow_checks, listing, mutated, file_path, phase, created, stale, upperVars>>

Sync(p) ==
    LET s == CacheSync(cache, fsys, p)
    IN /\ nops < MaxCacheOps
       /\ nops' = nops + 1
       /\ fsys' = s.fs
       /\ last' = [op |-> "sync", res |-> s.res, inserted |-> last.inserted]
       /\ UNCHANGED <<cache, handles, overflow_checks, listing, mutated, file_path, phase, created, stale, upperVars>>

\* a caller drops a handle it kept
DropHandle(p) ==
    /\ handles[p] > 0
    /\ p \in DOMAIN cache.entries
    /\ nops < MaxCacheOps
    /\ nops' = nops + 1
    /\ cache' = [cache EXCEPT !.entries[p] = CacheLockDrop(@)]
    /\ handles' = [handles EXCEPT ![p] = @ - 1]
    /\ last' = [op |-> "drop", res |-> "ok", inserted |-> last.inserted]
    /\ UNCHANGED <<fsys, overflow_checks, listing, mutated, file_path, phase, created, stale, upperVars>>

\* one caller runs write(p, b); sync(p); read(p) and keeps what read returns
RoundTrip(p, b) ==
    LET w == CacheWrite(cache, p, b, overflow_checks)
        c1 == [w.cache EXCEPT !.entries[p] = CacheLockDrop(@)]
        s == CacheSync(c1, fsys, p)
        r == CacheRead(c1, s.fs, p, overflow_checks)
    IN /\ nops + 3 <= MaxCacheOps
       /\ nops' = nops + 3
       /\ IF w.res # "ok"
          THEN /\ cache' = w.cache
               /\ fsys' = fsys
               /\ handles' = [handles EXCEPT ![p] = 0]
               /\ last' = [op |-> "roundtrip", res |-> w.res, inserted |-> last.inserted,
                           wrote |-> b, got |-> 0, bytes |-> <<>>]
          ELSE /\ cache' = r.cache
               /\ fsys' = s.fs
               /\ handles' = [handles EXCEPT ![p] = IF r.res = "some" THEN 1 ELSE 0]
               /\ last' = [op |-> "roundtrip",
                           res |-> IF s.res = "ok" THEN r.res ELSE s.res,
                           inserted |-> BlockSize(b),
                           wrote |-> b, got |-> r.block,
                           bytes |-> IF p \in DOMAIN s.fs.files
                                     THEN s.fs.files[p] ELSE <<>>]
       /\ UNCHANGED <<overflow_checks, listing, mutated, file_path, phase, created, stale, upperVars>>

NextCache ==
    \/ \E p \in CachePaths, keep \in BOOLEAN : Read(p, keep)
    \/ \E p \in CachePaths, b \in Blocks, keep \in BOOLEAN : Write(p, b, keep)
    \/ \E p \in CachePaths : Remove(p)
    \/ \E p \in CachePaths : Sync(p)
    \/ \E p \in CachePaths : DropHandle(p)
    \/ \E p \in CachePaths, b \in Blocks : RoundTrip(p, b)

SpecCache == InitCache /\ [][NextCache]_vars

(***************************************************************************)
(* Claims about the cache.                                                  *)
(***************************************************************************)
RECURSIVE SumSizes(_, _)
SumSizes(entries, paths) ==
    IF paths = {}
    THEN 0
    ELSE LET p == CHOOSE q \in paths : TRUE
         IN BlockSize(entries[p].block) + SumSizes(entries, paths \ {p})

HeldBytes == SumSizes(cache.entries, DOMAIN cache.entries)

\* C1: the accounted size equals the sum of the byte sizes of the blocks
\* held in the entries map, after any sequence of read / write / remove.
C1_CacheAccounting == cache.size = HeldBytes

\* C2: when callers hold no outstanding handles, the accounted size is at
\* most max_size plus the size of the most recently inserted block.
C2_CacheBound ==
    (\A p \in CachePaths : handles[p] = 0)
        => cache.size <= cache.max_size + last.inserted

\* C3: write(p, b); sync(p); read(p) returns a handle whose content is b,
\* and the bytes stored at p after sync are the serialization of b.
C3_CacheRoundTrip ==
    last.op = "roundtrip"
        => /\ last.res = "some"
           /\ last.got = last.wrote
           /\ last.bytes = ToBytes(last.wrote)

\* the index of path p in the priority sequence (0-based), where it occurs
RankIn(priority, p) == {i \in 0..(Len(priority) - 1) : priority[i + 1] = p}

\* C26: in a build where overflow wraps, after any sequence of read / write
\* / remove that has not just panicked, the LFU tracks exactly the paths of
\* the entries, each path once in the priority sequence, at the index its
\* rank says; and no call panics inside the LFU.
C26_LfuConsistent ==
    ~overflow_checks
        => /\ last.res # "panic"
           /\ DOMAIN cache.lfu.entries = DOMAIN cache.entries
           /\ Len(cache.lfu.priority) = Cardinality(DOMAIN cache.entries)
           /\ \A p \in DOMAIN cache.lfu.entries :
                 RankIn(cache.lfu.priority, p) = {cache.lfu.entries[p]}

\* C27: the reference count of every cached block is the number of handles
\* callers still hold on it, and in a build with overflow checks no call
\* panics: the count is never decremented below zero.
C27_RefCount ==
    /\ \A p \in DOMAIN cache.entries : cache.entries[p].rc = handles[p]
    /\ overflow_checks => last.res # "panic"

(***************************************************************************)
(* Files over one cache.  f1 is loaded from the directory d/f1, which      *)
(* holds the block x; f2, where there is one, is a new File in the same    *)
(* parent directory.  Two transactions, 1 < 2, create, get and mutate      *)
(* blocks, and are committed and finalized file by file.                   *)
(***************************************************************************)
Files == DOMAIN file_path

Txns == {1, 2}

BlockIds == {"x", "y"}

Perms(S) ==
    {q \in [1..Cardinality(S) -> S] : \A i, j \in 1..Cardinality(S) : q[i] = q[j] => i = j}

\* the listing File::load and File::new give each File
LoadedListing(f) == IF f = "f1" THEN {"x"} ELSE {}

\* the Files `names`; the transactions `open` have not been finalized
InitFiles(names, open) ==
    /\ cache = CacheNew(MaxSize)
    /\ fsys = [files |-> [q \in {<<"d", "f1", "x">>} |-> ToBytes(1)],
               dirs |-> {<<"d">>, <<"d", "f1">>}]
    /\ overflow_checks \in BOOLEAN
    /\ handles = EmptyMap
    /\ last = [op |-> "new", f |-> "", txn |-> 0, id |-> "", res |-> "ok"]
    /\ listing = [f \in names |-> TxnLockNew(LoadedListing(f))]
    /\ mutated = [f \in names |-> TxnLockNew({})]
    /\ file_path = [f \in names |-> <<"d", f>>]
    /\ nops = 0
    /\ phase = [k \in names \X Txns |-> IF k[2] \in open THEN "open" ELSE "rolledback"]
    /\ created = EmptyMap
    /\ stale = {}
    /\ UpperIdle

InitFile == InitFiles({"f1"}, Txns)

InitSiblings == InitFiles({"f1", "f2"}, {1})

State == [cache |-> cache, fs |-> fsys, listing |-> listing, mutated |-> mutated]

\* an operation leaves the state st
Becomes(st) ==
    /\ cache' = st.cache
    /\ fsys' = st.fs
    /\ listing' = st.listing
    /\ mutated' = st.mutated
    /\ nops' = nops + 1
    /\ UNCHANGED <<overflow_checks, handles, file_path, upperVars>>

BlockExists(f, t, id) ==
    LET r == FileBlockExists(State, f, t, id)
    IN /\ nops < MaxFileOps
       /\ phase[<<f, t>>] = "open"
       /\ TxnLockCanRead(listing[f], t)
       /\ Becomes(r.st)
       /\ last' = [op |-> "block_exists", f |-> f, txn |-> t, id |-> id, res |-> r.res]
       /\ UNCHANGED <<phase, created, stale>>

CreateBlock(f, t, id, v) ==
    LET r == FileCreateBlock(State, f, file_path[f], t, id, v, overflow_checks)
    IN /\ nops < MaxFileOps
       /\ phase[<<f, t>>] = "open"
       /\ TxnLockCanWrite(listing[f], t)
       /\ TxnLockCanWrite(mutated[f], t)
       /\ Becomes(r.st)
       /\ last' = [op |-> "create_block", f |-> f, txn |-> t, id |-> id, res |-> r.res]
       /\ created' = IF r.res = "ok" THEN MapPut(created, <<f, t, id>>, v) ELSE created
       /\ UNCHANGED <<phase, stale>>

GetBlock(f, t, id) ==
    LET r == FileGetBlock(State, f, file_path[f], t, id, overflow_checks)
    IN /\ nops < MaxFileOps
       /\ phase[<<f, t>>] = "open"
       /\ TxnLockCanRead(listing[f], t)
       /\ Becomes(r.st)
       /\ last' = [op |-> "get_block", f |-> f, txn |-> t, id |-> id, res |-> r.res]
       /\ UNCHANGED <<phase, created, stale>>

GetBlockMut(f, t, id, v) ==
    LET r == FileGetBlockMut(State, f, file_path[f], t, id, v, overflow_checks)
    IN /\ nops < MaxFileOps
       /\ phase[<<f, t>>] = "open"
       /\ TxnLockCanRead(listing[f], t)
       /\ TxnLockCanWrite(mutated[f], t)
       /\ Becomes(r.st)
       /\ last' = [op |-> "get_block_mut", f |-> f, txn |-> t, id |-> id, res |-> r.res]
       /\ created' = IF r.res = "ok" /\ <<f, t, id>> \in DOMAIN created
                     THEN MapPut(created, <<f, t, id>>, v)
                     ELSE created
       /\ UNCHANGED <<phase, stale>>

\* mutated.drain() yields the blocks in any order
Commit(f, t) ==
    \E ids \in Perms(IF TxnLockWriteConflicts(mutated[f], t)
                     THEN {} ELSE TxnLockView(mutated[f], t)) :
        LET r == FileCommit(State, f, file_path[f], t, ids)
            late == {b \in DOMAIN listing[f].pending : t < b}
        IN /\ nops < MaxFileOps
           /\ phase[<<f, t>>] = "open"
           /\ TxnLockCanWrite(mutated[f], t)
           /\ Becomes(r.st)
           /\ last' = [op |-> "commit", f |-> f, txn |-> t, id |-> "", res |-> r.res]
           /\ phase' = IF r.res = "ok" THEN [phase EXCEPT ![<<f, t>>] = "committed"]
                       ELSE phase
           /\ stale' = IF r.res = "ok" /\ t \in DOMAIN listing[f].pending
                       THEN stale \cup {<<f, b>> : b \in late}
                       ELSE stale
           /\ UNCHANGED created

\* the listing is iterated in any order
Finalize(f, t) ==
    \E ids \in Perms(IF TxnLockWriteConflicts(listing[f], t)
                     THEN {} ELSE TxnLockView(listing[f], t)) :
        LET r == FileFinalize(State, f, file_path[f], t, ids, overflow_checks)
        IN /\ nops < MaxFileOps
           /\ phase[<<f, t>>] \in {"open", "committed"}
           /\ TxnLockCanWrite(listing[f], t)
           /\ Becomes(r.st)
           /\ last' = [op |-> "finalize", f |-> f, txn |-> t, id |-> "", res |-> r.res]
           /\ phase' = IF r.res = "ok"
                       THEN [phase EXCEPT ![<<f, t>>] = IF @ = "committed"
                                                        THEN "finalized"
                                                        ELSE "rolledback"]
                       ELSE phase
           /\ UNCHANGED <<created, stale>>

NextFile ==
    \/ \E f \in Files, t \in Txns, id \in BlockIds : BlockExists(f, t, id)
    \/ \E f \in Files, t \in Txns, id \in BlockIds, v \in Blocks : CreateBlock(f, t, id, v)
    \/ \E f \in Files, t \in Txns, id \in BlockIds : GetBlock(f, t, id)
    \/ \E f \in Files, t \in Txns, id \in BlockIds, v \in Blocks : GetBlockMut(f, t, id, v)
    \/ \E f \in Files, t \in Txns : Commit(f, t)
    \/ \E f \in Files, t \in Txns : Finalize(f, t)

\* one File
SpecFile == InitFile /\ [][NextFile]_vars

\* two Files in one parent directory, and one transaction
SpecSiblings == InitSiblings /\ [][NextFile]_vars

(***************************************************************************)
(* Claims about the File.  `last` names the operation a step has called.   *)
(***************************************************************************)
\* transaction t sees the block id in the listing of f
Listed(f, t, id) ==
    /\ ~TxnLockForgotten(listing[f], t)
    /\ id \in TxnLockView(listing[f], t)

EntryAt(c, path) == IF path \in DOMAIN c.entries THEN <<c.entries[path].block>> ELSE <<>>

FileAt(fs, path) == IF path \in DOMAIN fs.files THEN <<fs.files[path]>> ELSE <<>>

\* C4: create_block(txn, id, value) fails with Conflict whenever the listing
\* visible to txn already contains id, and then leaves the listing, the
\* mutated set and the cached version of id unchanged.
C4_CreateConflict ==
    [][(last'.op = "create_block" /\ Listed(last'.f, last'.txn, last'.id))
        => LET f == last'.f
               t == last'.txn
               path == block_path(file_path[f], t, last'.id)
           IN /\ last'.res = "conflict"
              /\ listing'[f].pending = listing[f].pending
              /\ mutated'[f].pending = mutated[f].pending
              /\ EntryAt(cache', path) = EntryAt(cache, path)]_vars

\* C5: after create_block(T, id, v) succeeds, get_block(T, id) and
\* get_block_mut(T, id) in the same transaction return the content of the
\* block, without error and without a failed assertion.
C5_ReadOwnCreate ==
    [][(/\ last'.op \in {"get_block", "get_block_mut"}
        /\ <<last'.f, last'.txn, last'.id>> \in DOMAIN created)
        => LET k == <<last'.f, last'.txn, last'.id>>
               path == block_path(file_path[k[1]], k[2], k[3])
           IN /\ last'.res = "ok"
              /\ EntryAt(cache', path) = <<created'[k]>>]_vars

\* the content of transaction t's version of id: the cached one, else the
\* one in the version file
VersionBytes(f, t, id) ==
    LET path == block_path(file_path[f], t, id)
    IN IF path \in DOMAIN cache.entries
       THEN <<ToBytes(cache.entries[path].block)>>
       ELSE FileAt(fsys, path)

\* C6: after commit(T) returns, the canonical file of every id in mutated(T)
\* equals the content of T's version of id at commit time, and the
\* canonical file of every other id is unchanged, also when T only called
\* create_block.
C6_CommitAtomic ==
    [][last'.op = "commit"
        => LET f == last'.f
               t == last'.txn
           IN /\ last'.res = "ok"
              /\ ~TxnLockWriteConflicts(mutated[f], t)
              /\ \A id \in BlockIds :
                    FileAt(fsys', canonical(file_path[f], id))
                        = IF id \in TxnLockView(mutated[f], t)
                          THEN VersionBytes(f, t, id)
                          ELSE FileAt(fsys, canonical(file_path[f], id))]_vars

\* C7: after finalize(T), the version directory of T for this file does not
\* exist and the cache holds no entry whose path lies under it.
C7_FinalizeCleanup ==
    [][last'.op = "finalize"
        => LET version == version_path(file_path[last'.f], last'.txn)
           IN /\ version \notin fsys'.dirs
              /\ \A q \in DOMAIN fsys'.files : ~IsPrefix(version, q)
              /\ \A q \in DOMAIN cache'.entries : ~IsPrefix(version, q)]_vars

\* C8: when two distinct transactions both call get_block_mut on the same
\* block, each has its own version, a cache entry and a file keyed by its
\* own transaction id: a get_block_mut by one of them leaves the version of
\* the other, and what get_block gives the other, as they were.
C8_OwnVersion ==
    [][\A b \in Txns :
          (/\ last'.op = "get_block_mut"
           /\ b # last'.txn
           /\ phase[<<last'.f, b>>] = "open")
          => LET f == last'.f
                 fp == file_path[f]
                 id == last'.id
                 pa == block_path(fp, last'.txn, id)
                 pb == block_path(fp, b, id)
                 before == FileGetBlock(State, f, fp, b, id, overflow_checks)
                 after == FileGetBlock(State', f, fp, b, id, overflow_checks)
             IN /\ pa # pb
                /\ EntryAt(cache', pb) = EntryAt(cache, pb)
                /\ FileAt(fsys', pb) = FileAt(fsys, pb)
                /\ (before.res = "ok" /\ after.res = "ok")
                      => before.block = after.block]_vars

\* both transactions have mutated the block x, and their versions differ
C8_Witness ==
    \E f \in Files, a \in Txns, b \in Txns :
        LET pa == block_path(file_path[f], a, "x")
            pb == block_path(file_path[f], b, "x")
        IN /\ a # b
           /\ last = [op |-> "get_block_mut", f |-> f, txn |-> a, id |-> "x", res |-> "ok"]
           /\ phase[<<f, b>>] = "open"
           /\ b \in DOMAIN mutated[f].pending
           /\ "x" \in mutated[f].pending[b]
           /\ pa \in DOMAIN cache.entries
           /\ pb \in DOMAIN cache.entries
           /\ cache.entries[pa].block # cache.entries[pb].block

\* C9: the version of block `name` in transaction T of the File at P is at
\* P/.versions/{T}/{name}, so two Files that hold a block of the same name
\* in the same transaction never share a version path or a cache entry.
C9_VersionLayout ==
    \A f \in Files, g \in Files, t \in Txns, name \in BlockIds :
        (f # g /\ Listed(f, t, name) /\ Listed(g, t, name))
        => /\ block_path(file_path[f], t, name)
                 = file_path[f] \o <<VERSION, TxnName(t), name>>
           /\ block_path(file_path[f], t, name) # block_path(file_path[g], t, name)

\* transaction b can read the listing of f now
ReadsNow(f, b) == phase[<<f, b>>] = "open" /\ TxnLockCanRead(listing[f], b)

\* transaction a created the block id, and neither the loaded listing nor
\* transaction b did
WroteAlone(f, a, b, id) ==
    /\ <<f, a, id>> \in DOMAIN created
    /\ <<f, b, id>> \notin DOMAIN created
    /\ id \notin LoadedListing(f)

MaxMutate == 2

MaxCommits == 2

MaxTxnOps == 7

\* the Transactions made are the first, the second, ...
TxnSlots == {1, 2}

\* the values Host::time and the random nonce take
Timestamps == {0, 1}

Nonces == {0, 1}

\* the lengths of the blocks of a Store
DataLens == {0, 1}

StoreBlock == "b"

InitTxn ==
    /\ cache = CacheNew(MaxSize)
    /\ fsys = [files |-> NoFiles, dirs |-> {CacheDir}]
    /\ overflow_checks = TRUE
    /\ handles = [p \in CachePaths |-> 0]
    /\ last = [op |-> "new", res |-> "ok", inserted |-> 0]
    /\ listing = EmptyMap
    /\ mutated = EmptyMap
    /\ file_path = EmptyMap
    /\ nops = 0
    /\ phase = EmptyMap
    /\ created = EmptyMap
    /\ stale = {}
    /\ UpperIdle

\* one more operation of the coordinator or of a Store
Counted ==
    /\ nops < MaxTxnOps
    /\ nops' = nops + 1
    /\ UNCHANGED <<storeRest, tensorVars, indexVars>>

\* Transaction::new: the id is made of Host::time and a random nonce
New(timestamp, nonce) ==
    /\ Len(txns) + 1 \in TxnSlots
    /\ timestamp >= clock
    /\ clock' = timestamp
    /\ txns' = Append(txns, TransactionNew(TransactionIdNew(timestamp, nonce)))
    /\ UNCHANGED <<stores, calls>>
    /\ Counted

\* the calls of commit made on resources for transaction i
CommitCalls(i) == {k \in DOMAIN calls : calls[k].op = "commit" /\ calls[k].txn = i}

\* the calls of mutate transaction i has had
Registered(i) == Len(txns[i].mutated) + Len(txns[i].tasks) + Cardinality(CommitCalls(i))

\* Transaction::mutate
Mutate(i, r) ==
    /\ Registered(i) < MaxMutate
    /\ txns' = [txns EXCEPT ![i] = TransactionMutate(@, r)]
    /\ UNCHANGED <<clock, stores, calls>>
    /\ Counted

AllWithin(s) ==
    /\ \A b \in DOMAIN s.blocks : Len(s.blocks[b]) \in DataLens
    /\ \A t \in DOMAIN s.txn_cache :
          \A b \in DOMAIN s.txn_cache[t] : Len(s.txn_cache[t][b]) \in DataLens

\* Store::new_block by transaction i
NewBlock(i, r) ==
    LET res == StoreNewBlock(stores[r], txns[i].id, StoreBlock, <<1>>)
    IN /\ res.res = "ok"
       /\ stores' = [stores EXCEPT ![r] = res.store]
       /\ UNCHANGED <<clock, txns, calls>>
       /\ Counted

\* Store::append by transaction i
StoreAppendBlock(i, r) ==
    LET res == StoreAppend(stores[r], txns[i].id, StoreBlock, <<1>>)
    IN /\ AllWithin(res.store)
       /\ res.store # stores[r]
       /\ stores' = [stores EXCEPT ![r] = res.store]
       /\ UNCHANGED <<clock, txns, calls>>
       /\ Counted

\* Transaction::commit, to the point where join_all holds the tasks
CommitBegin(i) ==
    /\ txns[i].pc # "committing"
    /\ txns[i].commits < MaxCommits
    /\ txns' = [txns EXCEPT ![i] = TransactionCommit(@)]
    /\ UNCHANGED <<clock, stores, calls>>
    /\ Counted

\* join_all completes one of the tasks: `state.commit(&self.id)`
CommitTask(i, k) ==
    /\ txns[i].pc = "committing"
    /\ k \in DOMAIN txns[i].tasks
    /\ LET r == txns[i].tasks[k]
       IN /\ stores' = [stores EXCEPT ![r] = StoreCommit(@, txns[i].id)]
          /\ calls' = Append(calls, [op |-> "commit", r |-> r, txn |-> i])
    /\ txns' = [txns EXCEPT ![i].tasks = SeqRemove(@, k - 1)]
    /\ UNCHANGED <<clock>>
    /\ Counted

\* join_all returns, and with it Transaction::commit
CommitEnd(i) ==
    /\ txns[i].pc = "committing"
    /\ txns[i].tasks = <<>>
    /\ txns' = [txns EXCEPT ![i].pc = "returned", ![i].commits = @ + 1]
    /\ UNCHANGED <<clock, stores, calls>>
    /\ Counted

NextTxn ==
    \/ \E timestamp \in Timestamps, nonce \in Nonces : New(timestamp, nonce)
    \/ \E i \in DOMAIN txns, r \in Resources : Mutate(i, r)
    \/ \E i \in DOMAIN txns, r \in Resources : NewBlock(i, r)
    \/ \E i \in DOMAIN txns, r \in Resources : StoreAppendBlock(i, r)
    \/ \E i \in DOMAIN txns : CommitBegin(i)
    \/ \E i \in DOMAIN txns, k \in 1..MaxMutate : CommitTask(i, k)
    \/ \E i \in DOMAIN txns : CommitEnd(i)

SpecTxn == InitTxn /\ [][NextTxn]_vars

(***************************************************************************)
(* Claims about the coordinator.                                           *)
(***************************************************************************)
\* C11: when the commit of a transaction has returned, commit(txn_id) has
\* been invoked on every resource of its mutated set, and finalize(txn_id)
\* has been invoked on each of them after all of those commits.
C11_CommitThenFinalize ==
    \A i \in DOMAIN txns :
        txns[i].pc = "returned"
        => /\ txns[i].tasks = <<>>
           /\ \A k \in CommitCalls(i) :
                 \E m \in DOMAIN calls :
                    /\ calls[m] = [op |-> "finalize", r |-> calls[k].r, txn |-> i]
                    /\ \A j \in CommitCalls(i) : j < m

\* C12: a commit of a transaction that has been committed, with no mutate
\* since, commits no resource: it makes no task, calls commit on nothing and
\* leaves the queue of mutated resources and every Store as they were; and
\* a Store that has committed a transaction is left as it is by committing
\* the same transaction again.
C12_CommitIdempotent ==
    [][/\ \A i \in DOMAIN txns :
             (/\ txns[i].pc = "returned"
              /\ ~txns[i].fresh
              /\ txns'[i].pc = "committing")
             => /\ txns'[i].tasks = <<>>
                /\ txns'[i].mutated = txns[i].mutated
                /\ stores' = stores
                /\ calls' = calls
       /\ Len(calls') > Len(calls)
             => LET c == calls'[Len(calls')]
                IN StoreCommit(stores'[c.r], txns[c.txn].id) = stores'[c.r]]_vars

\* a transaction whose commit wrote a block of a Store is being committed
\* for the second time, and the second commit has no task
C12_Witness ==
    \E i \in DOMAIN txns :
        /\ txns[i].pc = "committing"
        /\ txns[i].commits >= 1
        /\ txns[i].tasks = <<>>
        /\ ~txns[i].fresh
        /\ \E k \in CommitCalls(i) : StoreBlock \in DOMAIN stores[calls[k].r].blocks

\* C13: the ids of the Transactions one coordinator makes one after the
\* other are strictly increasing in the order of Ord::cmp, also when they
\* are made at the same timestamp.
C13_IdsIncrease ==
    \A i \in DOMAIN txns, j \in DOMAIN txns :
        i < j => TransactionIdCmp(txns[i].id, txns[j].id) = "less"

(***************************************************************************)
(* Tensor blocks as bytes (src/state/tensor/array.rs).  The elements of an *)
(* Array are held as their bit patterns, a complex one as <<re, im>>, a    *)
(* Bool as a BOOLEAN.                                                      *)
(***************************************************************************)
MaxArrayLen == 2

ArrayTypes ==
    {"Bool", "C32", "C64", "F32", "F64", "I16", "I32", "I64", "U8", "U16", "U32", "U64"}

\* the bytes of one element, or of one part of a complex element
Width(type) ==
    CASE type \in {"Bool", "U8"} -> 1
      [] type \in {"I16", "U16"} -> 2
      [] type \in {"C32", "F32", "I32", "U32"} -> 4
      [] type \in {"C64", "F64", "I64", "U64"} -> 8

RECURSIVE ToBeBytes(_, _)
ToBeBytes(v, w) == IF w = 0 THEN <<>> ELSE Append(ToBeBytes(v \div 256, w - 1), v % 256)

RECURSIVE FromBeBytes(_)
FromBeBytes(b) ==
    IF b = <<>> THEN 0 ELSE 256 * FromBeBytes(SubSeq(b, 1, Len(b) - 1)) + b[Len(b)]

RECURSIVE Flatten(_)
Flatten(ss) == IF ss = <<>> THEN <<>> ELSE Head(ss) \o Flatten(Tail(ss))

\* chunks_exact(w)
RECURSIVE ChunksExact(_, _)
ChunksExact(data, w) ==
    IF Len(data) < w
    THEN <<>>
    ELSE <<SubSeq(data, 1, w)>> \o ChunksExact(SubSeq(data, w + 1, Len(data)), w)

\* bincode::serialize(&NumberType), two bytes long
DtypeBytes(dtype) ==
    CASE dtype = "Bool" -> <<0, 0>>
      [] dtype = "C32" -> <<1, 0>>
      [] dtype = "C64" -> <<1, 1>>
      [] dtype = "F32" -> <<2, 0>>
      [] dtype = "F64" -> <<2, 1>>
      [] dtype = "I16" -> <<3, 0>>
      [] dtype = "I32" -> <<3, 1>>
      [] dtype = "I64" -> <<3, 2>>
      [] dtype = "U8" -> <<4, 0>>
      [] dtype = "U16" -> <<4, 1>>
      [] dtype = "U32" -> <<4, 2>>
      [] dtype = "U64" -> <<4, 3>>

\* bincode::deserialize
DtypeFromBytes(b) ==
    IF \E t \in ArrayTypes : DtypeBytes(t) = b
    THEN CHOOSE t \in ArrayTypes : DtypeBytes(t) = b
    ELSE "bad_request"

\* Array::dtype
ArrayDtype(a) ==
    CASE a.type = "Bool" -> "Bool"
      [] a.type = "C32" -> "C32"
      [] a.type = "C64" -> "C32"
      [] a.type = "F32" -> "F32"
      [] a.type = "F64" -> "F32"
      [] a.type = "I16" -> "I16"
      [] a.type = "I32" -> "I32"
      [] a.type = "I64" -> "I64"
      [] a.type = "U8" -> "U16"
      [] a.type = "U16" -> "U16"
      [] a.type = "U32" -> "U32"
      [] a.type = "U64" -> "U64"

\* From<ArrayExt<T>> for Bytes
ArrayExtIntoBytes(type, values) ==
    CASE type = "Bool" ->
            [k \in DOMAIN values |-> IF values[k] THEN 1 ELSE 0]
      [] type \in {"C32", "C64"} ->
            Flatten([k \in DOMAIN values |->
                        ToBeBytes(values[k][1], Width(type))
                            \o ToBeBytes(values[k][2], Width(type))])
      [] type = "U8" -> values
      [] OTHER ->
            Flatten([k \in DOMAIN values |-> ToBeBytes(values[k], Width(type))])

\* TryFrom<Bytes> for ArrayExt<T>
ArrayExtTryFrom(type, data) ==
    CASE type = "Bool" ->
            IF \A k \in DOMAIN data : data[k] \in {0, 1}
            THEN [res |-> "ok", values |-> [k \in DOMAIN data |-> FALSE]]
            ELSE [res |-> "internal"]
      [] type = "C32" ->
            IF Len(data) % 8 # 0
            THEN [res |-> "internal"]
            ELSE LET cs == ChunksExact(data, 8)
                 IN [res |-> "ok",
                     values |-> [k \in DOMAIN cs |->
                                    <<FromBeBytes(SubSeq(cs[k], 1, 4)),
                                      FromBeBytes(SubSeq(cs[k], 5, 8))>>]]
      [] type = "C64" ->
            IF Len(data) % 16 # 0
            THEN [res |-> "internal"]
            ELSE IF ChunksExact(data, 8) = <<>>
            THEN [res |-> "ok", values |-> <<>>]
            ELSE [res |-> "panic"]
      [] type = "U8" -> [res |-> "ok", values |-> data]
      [] OTHER ->
            IF Len(data) % Width(type) # 0
            THEN [res |-> "internal"]
            ELSE LET cs == ChunksExact(data, Width(type))
                 IN [res |-> "ok", values |-> [k \in DOMAIN cs |-> FromBeBytes(cs[k])]]

\* From<Array> for Bytes
ArrayIntoBytes(a) == DtypeBytes(ArrayDtype(a)) \o ArrayExtIntoBytes(a.type, a.values)

\* TryFrom<Bytes> for Array
ArrayTryFrom(data) ==
    IF Len(data) < 2
    THEN [res |-> "panic"]
    ELSE LET dtype == DtypeFromBytes(SubSeq(data, 1, 2))
             parsed == ArrayExtTryFrom(dtype, SubSeq(data, 3, Len(data)))
         IN IF dtype = "bad_request"
            THEN [res |-> "bad_request"]
            ELSE IF parsed.res = "ok"
            THEN [res |-> "ok", type |-> dtype, values |-> parsed.values]
            ELSE parsed

\* the bit patterns the elements take
ElemValues == {0, 1, 258}

Elems(type) ==
    CASE type = "Bool" -> BOOLEAN
      [] type \in {"C32", "C64"} -> ElemValues \X ElemValues
      [] type = "U8" -> {v \in ElemValues : v < 256}
      [] OTHER -> ElemValues

SeqsUpTo(S, n) == UNION {[1..k -> S] : k \in 0..n}

Arrays == UNION {[type : {t}, values : SeqsUpTo(Elems(t), MaxArrayLen)] : t \in ArrayTypes}

InitArray ==
    /\ cache = CacheNew(MaxSize)
    /\ fsys = [files |-> NoFiles, dirs |-> {CacheDir}]
    /\ overflow_checks = TRUE
    /\ handles = [p \in CachePaths |-> 0]
    /\ last = [op |-> "new", res |-> "ok", inserted |-> 0]
    /\ listing = EmptyMap
    /\ mutated = EmptyMap
    /\ file_path = EmptyMap
    /\ nops = 0
    /\ phase = EmptyMap
    /\ created = EmptyMap
    /\ stale = {}
    /\ CoordIdle
    /\ IndexIdle
    /\ rebase = [op |-> "none"]
    /\ dense = [op |-> "none"]
    /\ \E b \in Arrays : array = [op |-> "given", from |-> b]

\* Bytes::from(b)
IntoBytes ==
    /\ array.op = "given"
    /\ array' = [op |-> "into_bytes", from |-> array.from,
                 bytes |-> ArrayIntoBytes(array.from)]
    /\ UNCHANGED <<storeVars, coordVars, indexVars, rebase, dense>>

\* Array::try_from of the Bytes made
TryFromBytes ==
    /\ array.op = "into_bytes"
    /\ array' = [op |-> "try_from", from |-> array.from, bytes |-> array.bytes,
                 parsed |-> ArrayTryFrom(array.bytes)]
    /\ UNCHANGED <<storeVars, coordVars, indexVars, rebase, dense>>

NextArray ==
    \/ IntoBytes
    \/ TryFromBytes

SpecArray == InitArray /\ [][NextArray]_vars

\* C14: the Bytes made of an Array parse to an Array of the same element
\* type, length and element values.
C14_ArrayRoundTrip ==
    array.op = "try_from"
    => array.parsed = [res |-> "ok", type |-> array.from.type, values |-> array.from.values]

(***************************************************************************)
(* Rebase (src/collection/tensor/transform.rs).  A Shape and a Coord are   *)
(* sequences, axis a of the code being element a + 1; an AxisBounds is     *)
(* At(c), In(start..end) or Of(indices).                                   *)
(***************************************************************************)
MaxNdim == 3

\* the length of an axis
Dims == {1, 2}

At(c) == [kind |-> "At", c |-> c]

In(start, end) == [kind |-> "In", start |-> start, end |-> end]

Of(indices) == [kind |-> "Of", indices |-> indices]

\* the indices along an axis
Indices == 0..(MaxOf(Dims) - 1)

\* the coordinates within a shape
CoordsOf(shape) ==
    {c \in [DOMAIN shape -> 0..MaxOf({shape[k] : k \in DOMAIN shape} \cup {0})] : \A k \in DOMAIN shape : c[k] < shape[k]}

\* the indices an AxisBounds selects
AxisValues(b) ==
    CASE b.kind = "At" -> {b.c}
      [] b.kind = "In" -> b.start..(b.end - 1)
      [] b.kind = "Of" -> {b.indices[k] : k \in DOMAIN b.indices}

\* Bounds::all
BoundsAll(shape) == [k \in DOMAIN shape |-> In(0, shape[k])]

\* Bounds::affected: the coordinates the iterator yields
Affected(bounds) ==
    {c \in [DOMAIN bounds -> UNION {AxisValues(bounds[k]) : k \in DOMAIN bounds}] : \A k \in DOMAIN bounds : c[k] \in AxisValues(bounds[k])}

\* Shape::contains_bounds
ContainsBounds(shape, bounds) ==
    /\ Len(bounds) <= Len(shape)
    /\ \A k \in DOMAIN bounds :
          CASE bounds[k].kind = "At" -> bounds[k].c < shape[k]
            [] bounds[k].kind = "In" ->
                  bounds[k].start < bounds[k].end /\ bounds[k].end <= shape[k]
            [] bounds[k].kind = "Of" ->
                  \A i \in DOMAIN bounds[k].indices : bounds[k].indices[i] < shape[k]

\* Vec::insert
SeqInsert(s, i, x) == SubSeq(s, 1, i) \o <<x>> \o SubSeq(s, i + 1, Len(s))

BroadcastNew(source_shape, shape) ==
    LET ndim == Len(shape)
        offset == ndim - Len(source_shape)
        fits(axis) ==
            \/ shape[axis + 1] = source_shape[axis - offset + 1]
            \/ shape[axis + 1] = 1
            \/ source_shape[axis - offset + 1] = 1
    IN IF Len(source_shape) > Len(shape)
       THEN [res |-> "bad_request"]
       ELSE IF \E axis \in offset..(ndim - 1) : ~fits(axis)
       THEN [res |-> "bad_request"]
       ELSE [res |-> "ok",
             kind |-> "broadcast",
             source_shape |-> source_shape,
             shape |-> shape,
             broadcast |-> [k \in 1..ndim |->
                               IF k - 1 < offset
                               THEN TRUE
                               ELSE shape[k] # source_shape[k - offset]],
             offset |-> offset]

BroadcastInvertCoord(t, coord) ==
    [k \in 1..Len(t.source_shape) |->
        IF t.broadcast[k + t.offset] THEN 0 ELSE coord[k + t.offset]]

\* Broadcast::map_bounds
BroadcastMapBounds(t, source_bounds) ==
    [k \in 1..Len(t.shape) |->
        IF k > t.offset /\ ~t.broadcast[k]
        THEN source_bounds[k - t.offset]
        ELSE BoundsAll(t.shape)[k]]

BroadcastMapCoord(t, coord) ==
    Affected(BroadcastMapBounds(t, [k \in DOMAIN coord |-> At(coord[k])]))

ExpandNew(source_shape, expand) ==
    IF expand > Len(source_shape)
    THEN [res |-> "bad_request"]
    ELSE [res |-> "ok",
          kind |-> "expand",
          source_shape |-> source_shape,
          shape |-> SeqInsert(source_shape, expand, 1),
          expand |-> expand]

ExpandInvertCoord(t, coord) ==
    SubSeq(coord, 1, t.expand)
        \o (IF t.expand < Len(t.source_shape)
            THEN SubSeq(coord, t.expand + 2, Len(coord))
            ELSE <<>>)

ExpandMapCoord(t, coord) == SeqInsert(coord, t.expand, 0)

\* the axes of the source a view keeps, in order
RECURSIVE KeptAxes(_, _)
KeptAxes(elided, n) ==
    IF n = 0
    THEN <<>>
    ELSE KeptAxes(elided, n - 1) \o (IF (n - 1) \in DOMAIN elided THEN <<>> ELSE <<n - 1>>)

SliceNew(source_shape, bounds) ==
    LET axes == {k - 1 : k \in DOMAIN bounds}
        elided == [a \in {a \in axes : bounds[a + 1].kind = "At"} |-> bounds[a + 1].c]
        offset == [a \in {a \in axes : bounds[a + 1].kind = "In"} |-> bounds[a + 1].start]
        kept == KeptAxes(elided, Len(source_shape))
        dim(a) ==
            IF a >= Len(bounds)
            THEN source_shape[a + 1]
            ELSE IF bounds[a + 1].kind = "In"
            THEN bounds[a + 1].end - bounds[a + 1].start
            ELSE Len(bounds[a + 1].indices)
    IN IF ~ContainsBounds(source_shape, bounds)
       THEN [res |-> "bad_request"]
       ELSE [res |-> "ok",
             kind |-> "slice",
             source_shape |-> source_shape,
             shape |-> [k \in DOMAIN kept |-> dim(kept[k])],
             bounds |-> bounds,
             offset |-> offset,
             elided |-> elided]

\* `self.offset.get(&axis).unwrap_or(&0)`
SliceOffset(t, axis) == IF axis \in DOMAIN t.offset THEN t.offset[axis] ELSE 0

RECURSIVE SliceInvertFrom(_, _, _, _)
SliceInvertFrom(t, coord, axis, source_axis) ==
    IF axis = Len(t.source_shape)
    THEN <<>>
    ELSE IF axis \in DOMAIN t.elided
    THEN <<t.elided[axis]>> \o SliceInvertFrom(t, coord, axis + 1, source_axis)
    ELSE <<coord[source_axis + 1] + SliceOffset(t, axis)>>
             \o SliceInvertFrom(t, coord, axis + 1, source_axis + 1)

SliceInvertCoord(t, coord) == SliceInvertFrom(t, coord, 0, 0)

\* `c - offset` of u64: a negative number stands for the wrapped one
SliceMapCoord(t, source_coord, checks) ==
    LET kept == KeptAxes(t.elided, Len(t.source_shape))
    IN IF checks /\ \E k \in DOMAIN kept :
                       USubOverflows(source_coord[kept[k] + 1], SliceOffset(t, kept[k]))
       THEN [res |-> "panic"]
       ELSE [res |-> "ok",
             coord |-> [k \in DOMAIN kept |->
                           source_coord[kept[k] + 1] - SliceOffset(t, kept[k])]]

\* Bounds::normalize: the bounds of every axis of shape, In(0..dim) where
\* none is given
BoundsNormalize(bounds, shape) ==
    [k \in DOMAIN shape |-> IF k <= Len(bounds) THEN bounds[k] ELSE In(0, shape[k])]

\* the loop of invert_bounds from `axis` on; an entry of kind "panic" stands
\* for a failed assertion or an index past the end of self.bounds
RECURSIVE SliceInvertBoundsFrom(_, _, _, _)
SliceInvertBoundsFrom(t, bounds, axis, source_axis) ==
    IF axis = Len(t.shape)
    THEN <<>>
    ELSE IF axis \in DOMAIN t.elided
    THEN <<At(t.elided[axis])>> \o SliceInvertBoundsFrom(t, bounds, axis + 1, source_axis)
    ELSE LET given == bounds[source_axis + 1]
             rest == SliceInvertBoundsFrom(t, bounds, axis + 1, source_axis + 1)
         IN CASE given.kind = "In" ->
                    IF axis >= Len(t.bounds)
                    THEN <<[kind |-> "panic"]>>
                    ELSE IF t.bounds[axis + 1].kind = "In"
                    THEN LET start == given.start + t.bounds[axis + 1].start
                         IN <<In(start, start + (given.end - given.start))>> \o rest
                    ELSE IF given.start # 0
                    THEN <<[kind |-> "panic"]>>
                    ELSE <<t.bounds[axis + 1]>> \o rest
              [] given.kind = "Of" ->
                    <<Of([i \in DOMAIN given.indices |->
                            given.indices[i] + SliceOffset(t, axis)])>> \o rest
              [] given.kind = "At" ->
                    <<At(given.c + SliceOffset(t, axis))>> \o rest

SliceInvertBounds(t, bounds) ==
    IF bounds = <<>> \/ bounds = BoundsAll(t.shape)
    THEN [res |-> "ok", bounds |-> t.bounds]
    ELSE LET source_bounds ==
                 SliceInvertBoundsFrom(t, BoundsNormalize(bounds, t.shape), 0, 0)
         IN IF \E k \in DOMAIN source_bounds : source_bounds[k].kind = "panic"
            THEN [res |-> "panic"]
            ELSE [res |-> "ok", bounds |-> source_bounds]

\* `(0..ndim).collect()` reversed
ReversedAxes(ndim) == [k \in 1..ndim |-> ndim - k]

\* Option<Vec<usize>>
None == [some |-> FALSE]

Some(axes) == [some |-> TRUE, value |-> axes]

TransposeNew(source_shape, permutation) ==
    LET ndim == Len(source_shape)
        perm == IF permutation.some THEN permutation.value ELSE ReversedAxes(ndim)
    IN IF Len(perm) # ndim
       THEN [res |-> "bad_request"]
       ELSE IF \E k \in DOMAIN perm : perm[k] >= ndim
       THEN [res |-> "panic"]
       ELSE [res |-> "ok",
             kind |-> "transpose",
             source_shape |-> source_shape,
             shape |-> [k \in DOMAIN perm |-> source_shape[perm[k] + 1]],
             permutation |-> perm]

\* `for axis in 0..len { v[permutation[axis]] = from[axis] }` over zeros:
\* the last axis written to a place stays
Scatter(permutation, from) ==
    [k \in DOMAIN from |->
        IF \E axis \in DOMAIN permutation : permutation[axis] = k - 1
        THEN from[MaxOf({axis \in DOMAIN permutation : permutation[axis] = k - 1})]
        ELSE 0]

TransposeInvertCoord(t, coord) == Scatter(t.permutation, coord)

TransposeMapCoord(t, source_coord) == Scatter(t.permutation, source_coord)

InvertCoord(t, coord) ==
    CASE t.kind = "broadcast" -> BroadcastInvertCoord(t, coord)
      [] t.kind = "expand" -> ExpandInvertCoord(t, coord)
      [] t.kind = "slice" -> SliceInvertCoord(t, coord)
      [] t.kind = "transpose" -> TransposeInvertCoord(t, coord)

\* for a Broadcast the coordinates the iterator yields, else one coordinate
MapCoord(t, coord, checks) ==
    CASE t.kind = "broadcast" -> [res |-> "ok", coords |-> BroadcastMapCoord(t, coord)]
      [] t.kind = "expand" -> [res |-> "ok", coord |-> ExpandMapCoord(t, coord)]
      [] t.kind = "slice" -> SliceMapCoord(t, coord, checks)
      [] t.kind = "transpose" -> [res |-> "ok", coord |-> TransposeMapCoord(t, coord)]

Shapes == UNION {[1..n -> Dims] : n \in 1..MaxNdim}

\* the AxisBounds given to Slice::new, some of them beyond every axis
AxisBoundsGiven ==
    {At(c) : c \in 0..MaxOf(Dims)}
        \cup {In(b[1], b[2]) : b \in {b \in (0..MaxOf(Dims)) \X (0..MaxOf(Dims)) : b[1] < b[2]}}
        \cup {Of(i) : i \in UNION {[1..n -> Indices] : n \in 1..2}}

\* the permutations given to Transpose::new, some of them none
AxesGiven == {None} \cup {Some(axes) : axes \in UNION {[1..n -> 0..MaxNdim] : n \in 1..MaxNdim}}

\* a transform is about to be constructed with the arguments given
Given(kind, args) == rebase = [op |-> "given", kind |-> kind, args |-> args]

InitRebase ==
    /\ cache = CacheNew(MaxSize)
    /\ fsys = [files |-> NoFiles, dirs |-> {CacheDir}]
    /\ overflow_checks \in BOOLEAN
    /\ handles = [p \in CachePaths |-> 0]
    /\ last = [op |-> "new", res |-> "ok", inserted |-> 0]
    /\ listing = EmptyMap
    /\ mutated = EmptyMap
    /\ file_path = EmptyMap
    /\ nops = 0
    /\ phase = EmptyMap
    /\ created = EmptyMap
    /\ stale = {}
    /\ CoordIdle
    /\ IndexIdle
    /\ array = [op |-> "none"]
    /\ dense = [op |-> "none"]
    /\ \/ \E source_shape \in Shapes, shape \in Shapes :
             Given("broadcast", <<source_shape, shape>>)
       \/ \E source_shape \in Shapes, expand \in 0..(MaxNdim + 1) :
             Given("expand", <<source_shape, expand>>)
       \/ \E source_shape \in Shapes :
             \E bounds \in SeqsUpTo(AxisBoundsGiven, Len(source_shape)) :
                Given("slice", <<source_shape, bounds>>)
       \/ \E source_shape \in Shapes, permutation \in AxesGiven :
             Given("transpose", <<source_shape, permutation>>)

\* a transform has been constructed, or refused
Made(kind, t) ==
    /\ rebase.op = "given"
    /\ rebase.kind = kind
    /\ rebase' = [op |-> "new", kind |-> kind, args |-> rebase.args, t |-> t]
    /\ UNCHANGED <<storeVars, coordVars, indexVars, array, dense>>

NewBroadcast == Made("broadcast", BroadcastNew(rebase.args[1], rebase.args[2]))

NewExpand == Made("expand", ExpandNew(rebase.args[1], rebase.args[2]))

NewSlice == Made("slice", SliceNew(rebase.args[1], rebase.args[2]))

NewTranspose == Made("transpose", TransposeNew(rebase.args[1], rebase.args[2]))

\* the transform at hand
Transform == IF rebase.op \in {"none", "given"} THEN [res |-> "none"] ELSE rebase.t

\* map_coord of the transform at hand
CallMapCoord ==
    /\ Transform.res = "ok"
    /\ \E coord \in CoordsOf(rebase.t.source_shape) :
          rebase' = [op |-> "map_coord", kind |-> rebase.kind, args |-> rebase.args,
                     t |-> rebase.t, coord |-> coord,
                     out |-> MapCoord(rebase.t, coord, overflow_checks)]
    /\ UNCHANGED <<storeVars, coordVars, indexVars, array, dense>>

\* invert_coord of the transform at hand
CallInvertCoord ==
    /\ Transform.res = "ok"
    /\ \E coord \in CoordsOf(rebase.t.shape) :
          rebase' = [op |-> "invert_coord", kind |-> rebase.kind, args |-> rebase.args,
                     t |-> rebase.t, coord |-> coord,
                     out |-> InvertCoord(rebase.t, coord)]
    /\ UNCHANGED <<storeVars, coordVars, indexVars, array, dense>>

\* the AxisBounds within an axis of length dim
AxisBoundsWithin(dim) ==
    {At(c) : c \in 0..(dim - 1)}
        \cup {In(b[1], b[2]) : b \in {b \in (0..dim) \X (0..dim) : b[1] < b[2]}}
        \cup {Of(<<i>>) : i \in 0..(dim - 1)}

\* the bounds within a shape, of as many axes as the shape or fewer
BoundsWithin(shape) ==
    UNION {{b \in [1..n -> UNION {AxisBoundsWithin(shape[k]) : k \in 1..n}] :
               \A k \in 1..n : b[k] \in AxisBoundsWithin(shape[k])} :
           n \in 0..Len(shape)}

\* the views whose bounds are inverted have no more axes than this
MaxViewNdim == 2

\* invert_bounds of the Slice at hand
CallInvertBounds ==
    /\ Transform.res = "ok"
    /\ rebase.op = "new"
    /\ rebase.kind = "slice"
    /\ Len(rebase.t.shape) <= MaxViewNdim
    /\ \E bounds \in BoundsWithin(rebase.t.shape) :
          rebase' = [op |-> "invert_bounds", kind |-> rebase.kind, args |-> rebase.args,
                     t |-> rebase.t, coord |-> bounds,
                     out |-> SliceInvertBounds(rebase.t, bounds)]
    /\ UNCHANGED <<storeVars, coordVars, indexVars, array, dense>>

NextRebase ==
    \/ NewBroadcast
    \/ NewExpand
    \/ NewSlice
    \/ NewTranspose
    \/ CallMapCoord
    \/ CallInvertCoord
    \/ CallInvertBounds

SpecRebase == InitRebase /\ [][NextRebase]_vars

(***************************************************************************)
(* Claims about Rebase.                                                    *)
(***************************************************************************)
\* axes is a permutation of 0..ndim-1
IsPermutation(axes, ndim) ==
    /\ Len(axes) = ndim
    /\ \A a \in 0..(ndim - 1) : \E k \in DOMAIN axes : axes[k] = a

\* the view covers the source coordinate
Covers(t, source_coord) ==
    CASE t.kind = "slice" ->
            \A k \in DOMAIN t.bounds : source_coord[k] \in AxisValues(t.bounds[k])
      [] t.kind = "transpose" -> IsPermutation(t.permutation, Len(t.source_shape))
      [] OTHER -> TRUE

\* C15: for a Slice, an Expand and a Transpose by any permutation,
\* invert_coord(map_coord(x)) = x for every source coordinate x the view
\* covers, and map_coord(invert_coord(y)) = y for every coordinate y within
\* the shape of the view.
C15_Bijection ==
    (rebase.op \in {"map_coord", "invert_coord"}
        /\ rebase.kind \in {"slice", "expand", "transpose"})
    => /\ (rebase.op = "map_coord" /\ Covers(rebase.t, rebase.coord))
          => /\ rebase.out.res = "ok"
             /\ InvertCoord(rebase.t, rebase.out.coord) = rebase.coord
       /\ (rebase.op = "invert_coord"
              /\ (rebase.kind = "transpose" => Covers(rebase.t, rebase.out)))
          => MapCoord(rebase.t, rebase.out, overflow_checks)
                = [res |-> "ok", coord |-> rebase.coord]

\* C16: for a Broadcast that Broadcast::new accepted and a source coordinate
\* x within source_shape, every coordinate c that map_coord(x) yields has
\* invert_coord(c) = x.
C16_BroadcastLeftInverse ==
    (rebase.op = "map_coord" /\ rebase.kind = "broadcast")
    => \A c \in rebase.out.coords : BroadcastInvertCoord(rebase.t, c) = rebase.coord

\* what the bounds select at the axes from `axis` on, for the view
\* coordinate whose indices from view_axis on are still to be used
RECURSIVE Selects(_, _, _, _, _)
Selects(bounds, ndim, coord, axis, view_axis) ==
    IF axis = ndim
    THEN <<>>
    ELSE IF axis >= Len(bounds)
    THEN <<coord[view_axis + 1]>> \o Selects(bounds, ndim, coord, axis + 1, view_axis + 1)
    ELSE IF bounds[axis + 1].kind = "At"
    THEN <<bounds[axis + 1].c>> \o Selects(bounds, ndim, coord, axis + 1, view_axis)
    ELSE IF bounds[axis + 1].kind = "In"
    THEN <<coord[view_axis + 1] + bounds[axis + 1].start>>
             \o Selects(bounds, ndim, coord, axis + 1, view_axis + 1)
    ELSE <<bounds[axis + 1].indices[coord[view_axis + 1] + 1]>>
             \o Selects(bounds, ndim, coord, axis + 1, view_axis + 1)

\* C17: invert_coord of a Slice gives, at an axis bounded by Of(indices), the
\* source index indices[i] for the view index i; at an axis bounded by a
\* range, range.start + i; at an elided axis, the value of At.
C17_SliceInvert ==
    (rebase.op = "invert_coord" /\ rebase.kind = "slice")
    => rebase.out
          = Selects(rebase.t.bounds, Len(rebase.t.source_shape), rebase.coord, 0, 0)

\* C18: Transpose::new, given a permutation, makes a view if it is a
\* permutation of 0..ndim-1; otherwise (also when its length is ndim) it
\* returns BadRequest, it neither panics nor makes a view.
C18_TransposeRejects ==
    (rebase.op = "new" /\ rebase.kind = "transpose" /\ rebase.args[2].some)
    => rebase.t.res
          = IF IsPermutation(rebase.args[2].value, Len(rebase.args[1]))
            THEN "ok"
            ELSE "bad_request"

(***************************************************************************)
(* Dense tensors (src/state/tensor/dense/mod.rs).  A BlockListFile holds   *)
(* its blocks in the order of their ids, block k being element k + 1; a    *)
(* Number is [class, v].                                                   *)
(***************************************************************************)
\* values in one block
PER_BLOCK == 2

RECURSIVE ShapeSize(_)
ShapeSize(shape) == IF shape = <<>> THEN 1 ELSE Head(shape) * ShapeSize(Tail(shape))

\* Array::constant
ArrayConstant(value, len) == [k \in 1..len |-> value.v]

\* BlockListFile::constant, with from_blocks
BlockListFileConstant(shape, value) ==
    LET size == ShapeSize(shape)
        full == [k \in 1..(size \div PER_BLOCK) |-> ArrayConstant(value, PER_BLOCK)]
        trailing_len == size % PER_BLOCK
    IN [dtype |-> value.class,
        shape |-> shape,
        blocks |-> IF trailing_len > 0
                   THEN Append(full, ArrayConstant(value, trailing_len))
                   ELSE full,
        coord_bounds |-> [k \in DOMAIN shape |-> ShapeSize(SubSeq(shape, k + 1, Len(shape)))]]

\* BlockList::block_stream of a BlockListFile
BlockListFileBlockStream(t) ==
    [k \in 1..(ShapeSize(t.shape) \div PER_BLOCK) |-> t.blocks[k]]

\* BlockList::value_stream
BlockListFileValueStream(t) == Flatten(BlockListFileBlockStream(t))

RECURSIVE SumProducts(_, _)
SumProducts(ds, xs) ==
    IF ds = <<>> THEN 0 ELSE Head(ds) * Head(xs) + SumProducts(Tail(ds), Tail(xs))

\* Shape::contains_coord
ContainsCoord(shape, coord) ==
    /\ Len(coord) = Len(shape)
    /\ \A k \in DOMAIN coord : coord[k] < shape[k]

BlockListFileReadValueAt(t, coord) ==
    LET offset == SumProducts(t.coord_bounds, coord)
        block_id == offset \div PER_BLOCK
    IN IF ~ContainsCoord(t.shape, coord)
       THEN [res |-> "bad_request"]
       ELSE IF block_id + 1 \notin DOMAIN t.blocks
       THEN [res |-> "not_found"]
       ELSE IF (offset % PER_BLOCK) + 1 \notin DOMAIN t.blocks[block_id + 1]
       THEN [res |-> "internal"]
       ELSE [res |-> "ok",
             value |-> [class |-> t.dtype, v |-> t.blocks[block_id + 1][(offset % PER_BLOCK) + 1]]]

BlockListFileWriteValueAt(t, coord, value) ==
    LET offset == SumProducts(t.coord_bounds, coord)
        block_id == offset \div PER_BLOCK
    IN IF ~ContainsCoord(t.shape, coord) \/ value.class # t.dtype
       THEN [tensor |-> t, res |-> "bad_request"]
       ELSE IF block_id + 1 \notin DOMAIN t.blocks
       THEN [tensor |-> t, res |-> "not_found"]
       ELSE IF (offset % PER_BLOCK) + 1 \notin DOMAIN t.blocks[block_id + 1]
       THEN [tensor |-> t, res |-> "internal"]
       ELSE [tensor |-> [t EXCEPT !.blocks[block_id + 1][(offset % PER_BLOCK) + 1] = value.v],
             res |-> "ok"]

\* DenseTensor::broadcast: the tensor itself, or a BlockListBroadcast over it
DenseBroadcast(t, shape) ==
    IF shape = t.shape THEN [res |-> "same"] ELSE BroadcastNew(t.shape, shape)

BlockListBroadcastReadValueAt(t, view, coord) ==
    BlockListFileReadValueAt(t, BroadcastInvertCoord(view, coord))

BlockListBroadcastWriteValue(t, view, bounds, number) ==
    [tensor |-> t, res |-> "unsupported"]

\* write_value_at of a BlockListBroadcast, were it to write to the source
BlockListBroadcastWriteThrough(t, view, coord, value) ==
    BlockListFileWriteValueAt(t, BroadcastInvertCoord(view, coord), value)

BlockListBroadcastWriteValueAt(t, view, coord, value) ==
    [tensor |-> t, res |-> "unsupported"]

\* the shapes of the dense tensors and of their views
DenseShapes == [1..1 -> {1, 2, 3}] \cup [1..2 -> {1, 2}]

\* the values of the elements, and the classes of the Numbers written
DenseValues == {0, 1}

DenseClasses == {"U8", "Bool"}

InitDense ==
    /\ cache = CacheNew(MaxSize)
    /\ fsys = [files |-> NoFiles, dirs |-> {CacheDir}]
    /\ overflow_checks = TRUE
    /\ handles = [p \in CachePaths |-> 0]
    /\ last = [op |-> "new", res |-> "ok", inserted |-> 0]
    /\ listing = EmptyMap
    /\ mutated = EmptyMap
    /\ file_path = EmptyMap
    /\ nops = 0
    /\ phase = EmptyMap
    /\ created = EmptyMap
    /\ stale = {}
    /\ CoordIdle
    /\ IndexIdle
    /\ array = [op |-> "none"]
    /\ rebase = [op |-> "none"]
    /\ \E shape \in DenseShapes, v \in DenseValues :
          dense = [op |-> "given", shape |-> shape, value |-> [class |-> "U8", v |-> v]]

\* the tensor, its view and the answer to the call just made
Answers(op, tensor, view, arg, out) ==
    /\ dense' = [op |-> op, tensor |-> tensor, view |-> view, arg |-> arg, out |-> out]
    /\ UNCHANGED <<storeVars, coordVars, indexVars, array, rebase>>

Constant ==
    /\ dense.op = "given"
    /\ Answers("constant", BlockListFileConstant(dense.shape, dense.value),
               [res |-> "none"], dense.value, "ok")

\* the tensor has been made
Live == dense.op \notin {"none", "given"}

\* the view is a BlockListBroadcast
Viewed == Live /\ dense.view.res = "ok"

\* the coordinates within a shape and those just beyond it
CoordsAbout(shape) == CoordsOf([k \in DOMAIN shape |-> shape[k] + 1])

Broadcast(shape) ==
    /\ Live
    /\ dense.view.res = "none"
    /\ LET view == DenseBroadcast(dense.tensor, shape)
       IN Answers("broadcast", dense.tensor,
                  IF view.res = "ok" THEN view ELSE dense.view, shape, view.res)

ReadValueAt ==
    /\ Live
    /\ \E coord \in CoordsAbout(dense.tensor.shape) :
          Answers("read_value_at", dense.tensor, dense.view, coord,
                  BlockListFileReadValueAt(dense.tensor, coord))

WriteValueAt ==
    /\ Live
    /\ \E coord \in CoordsAbout(dense.tensor.shape), class \in DenseClasses, v \in DenseValues :
          LET w == BlockListFileWriteValueAt(dense.tensor, coord, [class |-> class, v |-> v])
          IN Answers("write_value_at", w.tensor, dense.view, coord, w.res)

BlockStream ==
    /\ Live
    /\ Answers("block_stream", dense.tensor, dense.view, <<>>,
               BlockListFileBlockStream(dense.tensor))

ValueStream ==
    /\ Live
    /\ Answers("value_stream", dense.tensor, dense.view, <<>>,
               BlockListFileValueStream(dense.tensor))

BroadcastReadValueAt ==
    /\ Viewed
    /\ \E coord \in CoordsOf(dense.view.shape) :
          Answers("broadcast.read_value_at", dense.tensor, dense.view, coord,
                  BlockListBroadcastReadValueAt(dense.tensor, dense.view, coord))

\* the bounds of one coordinate, or of the whole view
BroadcastWriteValue ==
    /\ Viewed
    /\ \E bounds \in {[k \in DOMAIN coord |-> At(coord[k])] : coord \in CoordsOf(dense.view.shape)}
                        \cup {BoundsAll(dense.view.shape)},
          v \in DenseValues :
          LET w == BlockListBroadcastWriteValue(dense.tensor, dense.view, bounds,
                                                [class |-> "U8", v |-> v])
          IN Answers("broadcast.write_value", w.tensor, dense.view, bounds, w.res)

BroadcastWriteValueAt ==
    /\ Viewed
    /\ \E coord \in CoordsOf(dense.view.shape), v \in DenseValues :
          LET w == BlockListBroadcastWriteValueAt(dense.tensor, dense.view, coord,
                                                  [class |-> "U8", v |-> v])
          IN Answers("broadcast.write_value_at", w.tensor, dense.view, coord, w.res)

NextDense ==
    \/ Constant
    \/ \E shape \in DenseShapes : Broadcast(shape)
    \/ ReadValueAt
    \/ WriteValueAt
    \/ BlockStream
    \/ ValueStream
    \/ BroadcastReadValueAt
    \/ BroadcastWriteValue
    \/ BroadcastWriteValueAt

SpecDense == InitDense /\ [][NextDense]_vars

(***************************************************************************)
(* Claims about dense tensors.                                             *)
(***************************************************************************)
\* C19: write_value and write_value_at through a Broadcast view return
\* Unsupported, whatever the bounds, the coordinate and the value, and leave
\* every block of the source tensor as it was.
C19_BroadcastWriteRejected ==
    [][dense'.op \in {"broadcast.write_value", "broadcast.write_value_at"}
          => /\ dense'.out = "unsupported"
             /\ dense'.tensor = dense.tensor]_vars

\* a write through a Broadcast view has been refused, over a source tensor
\* that a write of its own had changed
C19_Witness ==
    /\ dense.op = "broadcast.write_value_at"
    /\ dense.out = "unsupported"
    /\ dense.view.res = "ok"
    /\ \E k \in DOMAIN dense.tensor.blocks :
          \E i, j \in DOMAIN dense.tensor.blocks[k] :
             dense.tensor.blocks[k][i] # dense.tensor.blocks[k][j]

\* C20: BlockListFile::constant stores ceil(size / PER_BLOCK) blocks, block k
\* holding the row-major indices from k * PER_BLOCK up to (k + 1) * PER_BLOCK
\* (the last block may be short); block_stream and value_stream yield all
\* the blocks and all `size` values in that order, also when size is below
\* PER_BLOCK or no multiple of it; read_value_at(coord) reads position
\* offset mod PER_BLOCK of block offset / PER_BLOCK.
C20_DenseLayout ==
    LET size == ShapeSize(dense.tensor.shape)
        blocks == dense.tensor.blocks
        offset == SumProducts(dense.tensor.coord_bounds, dense.arg)
    IN /\ dense.op = "constant"
          => /\ Len(blocks) = (size + PER_BLOCK - 1) \div PER_BLOCK
             /\ \A k \in DOMAIN blocks :
                   /\ \A v \in DOMAIN blocks[k] : blocks[k][v] = dense.arg.v
                   /\ Len(blocks[k]) = IF k * PER_BLOCK <= size
                                       THEN PER_BLOCK
                                       ELSE size - (k - 1) * PER_BLOCK
       /\ dense.op = "block_stream" => dense.out = blocks
       /\ dense.op = "value_stream"
          => dense.out = Flatten(blocks) /\ Len(dense.out) = size
       /\ (dense.op = "read_value_at" /\ ContainsCoord(dense.tensor.shape, dense.arg))
          => dense.out
                = [res |-> "ok",
                   value |-> [class |-> dense.tensor.dtype,
                              v |-> blocks[(offset \div PER_BLOCK) + 1][(offset % PER_BLOCK) + 1]]]

(***************************************************************************)
(* Collator (src/state/index/collator.rs).  A key is a sequence of Values, *)
(* one per column of the schema; the two supported column types are the    *)
(* integers Int32 and UInt64, and a Value is modelled by the integer it    *)
(* holds.  An Ordering is one of "Less", "Equal", "Greater".                *)
(***************************************************************************)
CollatorSupports(dtype) == dtype \in {"Int32", "UInt64"}

CollatorNew(schema) ==
    IF \A i \in 1..Len(schema) : CollatorSupports(schema[i])
    THEN [res |-> "ok", schema |-> schema]
    ELSE [res |-> "bad_request"]

CompareInteger(v1, v2) ==
    IF v1 < v2 THEN "Less" ELSE IF v1 > v2 THEN "Greater" ELSE "Equal"

\* the body of the `for` loop returns in its first iteration
CollatorCompare(schema, key1, key2) ==
    IF Len(key1) > 0 /\ Len(key2) > 0
    THEN CompareInteger(key1[1], key2[1])
    ELSE IF key1 = <<>> /\ key2 # <<>>
    THEN "Less"
    ELSE IF key1 # <<>> /\ key2 = <<>>
    THEN "Greater"
    ELSE "Equal"

\* bisect up to its loop: the position it returns at once, or the interval
\* [start, end] the loop starts from (0-based, as in the source)
BisectEnter(schema, keys, key) ==
    IF keys = <<>>
    THEN [pc |-> "returned", out |-> 0]
    ELSE LET start_relation == CollatorCompare(schema, keys[1], key)
             end_relation == CollatorCompare(schema, keys[Len(keys)], key)
         IN IF start_relation = "Less"
            THEN [pc |-> "returned", out |-> 0]
            ELSE IF end_relation \in {"Greater", "Equal"}
            THEN [pc |-> "returned", out |-> Len(keys)]
            ELSE [pc |-> "loop", start |-> 0, end |-> Len(keys) - 1]

\* one pass of bisect's `while start < end`
BisectIterate(schema, keys, key, start, end) ==
    IF ~(start < end)
    THEN [pc |-> "returned", out |-> end]
    ELSE LET mid == (start + end) \div 2
             at == CollatorCompare(schema, keys[mid + 1], key)
         IN IF at = "Less"
            THEN [pc |-> "loop", start |-> mid, end |-> end]
            ELSE IF at = "Greater"
            THEN [pc |-> "loop", start |-> start, end |-> mid]
            ELSE IF mid = Len(keys) - 1
            THEN [pc |-> "loop", start |-> start, end |-> mid]
            ELSE LET next == CollatorCompare(schema, keys[mid + 2], key)
                 IN IF next = "Greater"
                    THEN [pc |-> "loop", start |-> start, end |-> mid]
                    ELSE IF next = "Equal"
                    THEN [pc |-> "loop", start |-> mid + 1, end |-> end]
                    ELSE [pc |-> "panic"]

\* bisect_left up to its loop
BisectLeftEnter(schema, keys, key) ==
    IF keys = <<>>
    THEN [pc |-> "returned", out |-> 0]
    ELSE LET start_relation == CollatorCompare(schema, keys[1], key)
             end_relation == CollatorCompare(schema, keys[Len(keys)], key)
         IN IF start_relation \in {"Greater", "Equal"}
            THEN [pc |-> "returned", out |-> 0]
            ELSE IF end_relation = "Less"
            THEN [pc |-> "returned", out |-> Len(keys)]
            ELSE [pc |-> "loop", start |-> 0, end |-> Len(keys) - 1]

\* one pass of bisect_left's `while start < end`
BisectLeftIterate(schema, keys, key, start, end) ==
    IF ~(start < end)
    THEN [pc |-> "returned", out |-> start]
    ELSE LET mid == (start + end) \div 2
             at == CollatorCompare(schema, keys[mid + 1], key)
         IN IF at = "Less"
            THEN [pc |-> "loop", start |-> mid, end |-> end]
            ELSE IF at = "Greater"
            THEN [pc |-> "loop", start |-> start, end |-> mid]
            ELSE IF mid = 0
            THEN [pc |-> "returned", out |-> 0]
            ELSE LET prev == CollatorCompare(schema, keys[mid], key)
                 IN IF prev = "Equal"
                    THEN [pc |-> "loop", start |-> start, end |-> mid - 1]
                    ELSE IF prev = "Less"
                    THEN [pc |-> "loop", start |-> mid, end |-> end]
                    ELSE [pc |-> "panic"]

(***************************************************************************)
(* A Collator over one or two integer columns is given a vector of keys    *)
(* that is sorted under it and a key; a caller compares two of the keys,   *)
(* or runs bisect or bisect_left, whose loop takes one step per pass.      *)
(***************************************************************************)
MaxColumns == 2

MaxKeys == 3

MaxPasses == 4

ColumnTypes == {"Int32", "UInt64"}

ColumnValues == {0, 1, 2}

KeysOf(n) == [1..n -> ColumnValues]

\* keys is sorted under the collator of schema
SortedUnder(schema, keys) ==
    \A i, j \in 1..Len(keys) :
        i < j => CollatorCompare(schema, keys[i], keys[j]) \in {"Less", "Equal"}

InitCollator ==
    /\ cache = CacheNew(MaxSize)
    /\ fsys = [files |-> NoFiles, dirs |-> {CacheDir}]
    /\ overflow_checks = TRUE
    /\ handles = EmptyMap
    /\ last = [op |-> "new", res |-> "ok"]
    /\ listing = EmptyMap
    /\ mutated = EmptyMap
    /\ file_path = EmptyMap
    /\ nops = 0
    /\ phase = EmptyMap
    /\ created = EmptyMap
    /\ stale = {}
    /\ CoordIdle
    /\ TensorIdle
    /\ IndexIdleBut("collator")
    /\ \E n \in 1..MaxColumns :
         \E schema \in [1..n -> ColumnTypes], len \in 0..MaxKeys, m \in 1..n :
           \E keys \in [1..len -> KeysOf(n)], key \in KeysOf(m) :
              /\ CollatorNew(schema).res = "ok"
              /\ SortedUnder(schema, keys)
              /\ collator = [op |-> "given", schema |-> schema,
                             keys |-> keys, key |-> key]

CollatorRest == <<storeVars, coordVars, tensorVars, collatorRest>>

\* compare(keys[i], keys[j])
Compare ==
    /\ collator.op = "given"
    /\ \E i, j \in 1..Len(collator.keys) :
          collator' = [collator EXCEPT
                         !.op = "compare",
                         !.key = collator.keys[j],
                         !.keys = <<collator.keys[i]>>] @@
                      [out |-> CollatorCompare(collator.schema,
                                               collator.keys[i], collator.keys[j])]
    /\ UNCHANGED CollatorRest

\* the call of bisect (left = FALSE) or bisect_left, up to its loop
Enter(left) ==
    /\ collator.op = "given"
    /\ collator' =
          (IF left
           THEN BisectLeftEnter(collator.schema, collator.keys, collator.key)
           ELSE BisectEnter(collator.schema, collator.keys, collator.key))
          @@ [op |-> IF left THEN "bisect_left" ELSE "bisect",
              schema |-> collator.schema, keys |-> collator.keys,
              key |-> collator.key, passes |-> 0]
    /\ UNCHANGED CollatorRest

\* one pass of the loop of the search that is running
Iterate ==
    /\ collator.op \in {"bisect", "bisect_left"}
    /\ collator.pc = "loop"
    /\ collator.passes < MaxPasses
    /\ collator' =
          (IF collator.op = "bisect_left"
           THEN BisectLeftIterate(collator.schema, collator.keys, collator.key,
                                  collator.start, collator.end)
           ELSE BisectIterate(collator.schema, collator.keys, collator.key,
                              collator.start, collator.end))
          @@ [op |-> collator.op, schema |-> collator.schema,
              keys |-> collator.keys, key |-> collator.key,
              passes |-> collator.passes + 1]
    /\ UNCHANGED CollatorRest

NextCollator ==
    \/ Compare
    \/ \E left \in BOOLEAN : Enter(left)
    \/ Iterate

SpecCollator == InitCollator /\ [][NextCollator]_vars

(***************************************************************************)
(* Claims about the Collator.                                               *)
(***************************************************************************)
\* the first position of keys whose element stands in one of the relations
\* `rels` to key under the collator, the length of keys if there is none
FirstPosition(schema, keys, key, rels) ==
    LET hits == {i \in 0..(Len(keys) - 1) :
                    CollatorCompare(schema, keys[i + 1], key) \in rels}
    IN IF hits = {} THEN Len(keys) ELSE CHOOSE i \in hits : \A j \in hits : i <= j

\* C23: over a sorted key vector, bisect returns the first position whose
\* element is strictly greater than key and bisect_left the first position
\* whose element is greater than or equal to key (the length if none).
C23_BisectPositions ==
    (collator.op \in {"bisect", "bisect_left"} /\ collator.pc = "returned")
        => collator.out =
              FirstPosition(collator.schema, collator.keys, collator.key,
                            IF collator.op = "bisect"
                            THEN {"Greater"} ELSE {"Greater", "Equal"})

\* the lexicographic order of two keys of one length
RECURSIVE Lexicographic(_, _)
Lexicographic(key1, key2) ==
    IF key1 = <<>> \/ key2 = <<>>
    THEN "Equal"
    ELSE IF Head(key1) # Head(key2)
    THEN CompareInteger(Head(key1), Head(key2))
    ELSE Lexicographic(Tail(key1), Tail(key2))

\* C24: compare orders multi-column keys lexicographically: two keys that
\* agree on column 0 and differ on column 1 compare according to column 1,
\* never as Equal.
C24_CompareLexicographic ==
    (collator.op = "compare" /\ Len(collator.keys[1]) = Len(collator.key))
        => collator.out = Lexicographic(collator.keys[1], collator.key)

\* C29: every pass of the loop of bisect and of bisect_left strictly
\* shrinks the interval [start, end], so the search returns after finitely
\* many passes.
C29_BisectShrinks ==
    [][(/\ collator.op \in {"bisect", "bisect_left"}
        /\ collator.pc = "loop"
        /\ collator'.op = collator.op)
        => /\ collator'.pc # "panic"
           /\ collator'.pc = "loop"
                => collator'.end - collator'.start
                      < collator.end - collator.start]_vars

(***************************************************************************)
(* The kernel's execute (host/src/kernel/mod.rs 236-273).  The Txn and the *)
(* Cluster are given by what their calls answer: `owner` is txn.owner(),   *)
(* `path` cluster.path(), and `answers` says whether txn.put, the claim,   *)
(* the handler and distribute_commit return Ok.  execute returns the calls *)
(* it made, in order, and its result.                                       *)
(***************************************************************************)
execute_commit_always(owner, path, answers) ==
    IF owner.some
    THEN LET notify == IF path = owner.value THEN <<>> ELSE <<"put">>
         IN IF notify # <<>> /\ ~answers.put
            THEN [calls |-> notify, res |-> "err"]
            ELSE [calls |-> notify \o <<"handler">>,
                  res |-> IF answers.handler THEN "ok" ELSE "err"]
    ELSE IF ~answers.claim
    THEN [calls |-> <<"claim">>, res |-> "err"]
    ELSE [calls |-> <<"claim", "handler", "distribute_commit">>,
          res |-> IF answers.handler /\ answers.distribute_commit
                  THEN "ok" ELSE "err"]

execute(owner, path, answers) ==
    IF owner.some
    THEN LET notify == IF path = owner.value THEN <<>> ELSE <<"put">>
         IN IF notify # <<>> /\ ~answers.put
            THEN [calls |-> notify, res |-> "err"]
            ELSE [calls |-> notify \o <<"handler">>,
                  res |-> IF answers.handler THEN "ok" ELSE "err"]
    ELSE IF ~answers.claim
    THEN [calls |-> <<"claim">>, res |-> "err"]
    ELSE IF answers.handler
    THEN [calls |-> <<"claim", "handler", "distribute_commit">>,
          res |-> IF answers.distribute_commit THEN "ok" ELSE "err"]
    ELSE [calls |-> <<"claim", "handler", "distribute_rollback">>,
          res |-> "err"]

(***************************************************************************)
(* One request: a transaction with or without an owner reaches a cluster,  *)
(* and the kernel executes a handler for it.                                *)
(***************************************************************************)
ClusterPaths == {<<"a">>, <<"b">>}

Answers4 == [put : BOOLEAN, claim : BOOLEAN, handler : BOOLEAN,
             distribute_commit : BOOLEAN]

InitKernel ==
    /\ cache = CacheNew(MaxSize)
    /\ fsys = [files |-> NoFiles, dirs |-> {CacheDir}]
    /\ overflow_checks = TRUE
    /\ handles = EmptyMap
    /\ last = [op |-> "new", res |-> "ok"]
    /\ listing = EmptyMap
    /\ mutated = EmptyMap
    /\ file_path = EmptyMap
    /\ nops = 0
    /\ phase = EmptyMap
    /\ created = EmptyMap
    /\ stale = {}
    /\ CoordIdle
    /\ TensorIdle
    /\ IndexIdleBut("kernel")
    /\ \E owner \in {None} \cup {Some(q) : q \in ClusterPaths},
          path \in ClusterPaths, answers \in Answers4 :
          kernel = [op |-> "given", owner |-> owner, path |-> path,
                    answers |-> answers]

Execute ==
    /\ kernel.op = "given"
    /\ kernel' = [kernel EXCEPT !.op = "execute"]
                    @@ execute(kernel.owner, kernel.path, kernel.answers)
    /\ UNCHANGED <<storeVars, coordVars, tensorVars, kernelRest>>

NextKernel == Execute

SpecKernel == InitKernel /\ [][NextKernel]_vars

(***************************************************************************)
(* Claims about the kernel.                                                 *)
(***************************************************************************)
\* the positions of call c in the sequence calls
Positions(calls_, c) == {i \in 1..Len(calls_) : calls_[i] = c}

\* C25: when execute runs a handler for a transaction without owner, it
\* has claimed the transaction before, and after the handler it invokes
\* exactly one of distribute_commit and distribute_rollback: commit if and
\* only if the handler returned Ok.  For a transaction that has an owner it
\* invokes neither.
C25_ClaimThenSettle ==
    (kernel.op = "execute" /\ Positions(kernel.calls, "handler") # {})
        => LET commits == Positions(kernel.calls, "distribute_commit")
               rollbacks == Positions(kernel.calls, "distribute_rollback")
               handled == Positions(kernel.calls, "handler")
           IN IF kernel.owner.some
              THEN commits = {} /\ rollbacks = {}
              ELSE /\ Positions(kernel.calls, "claim") = {1}
                   /\ handled = {2}
                   /\ Cardinality(commits \cup rollbacks) = 1
                   /\ \A i \in commits \cup rollbacks : i > 2
                   /\ (commits # {}) <=> kernel.answers.handler

\* a handler that failed for a claimed transaction has been rolled back
C25_Witness ==
    /\ kernel.op = "execute"
    /\ ~kernel.owner.some
    /\ ~kernel.answers.handler
    /\ kernel.calls = <<"claim", "handler", "distribute_rollback">>

(***************************************************************************)
(* The Store on its own (src/internal/store.rs): the calls the model of    *)
(* the coordinator does not make.  A block is the sequence of its bytes.   *)
(***************************************************************************)
StoreGetBlock(s, txn_id, block_id) ==
    IF txn_id \in DOMAIN s.txn_cache /\ block_id \in DOMAIN s.txn_cache[txn_id]
    THEN Some(s.txn_cache[txn_id][block_id])
    ELSE IF block_id \in DOMAIN s.blocks
    THEN Some(s.blocks[block_id])
    ELSE None

StoreInsertInto(s, txn_id, block_id, data, offset) ==
    LET got == StoreGetBlock(s, txn_id, block_id)
        block == got.value
        new_block == SubSeq(block, 1, offset) \o data
                        \o SubSeq(block, offset + 1, Len(block))
        old == IF txn_id \in DOMAIN s.txn_cache THEN s.txn_cache[txn_id] ELSE EmptyMap
    IN IF ~got.some
       THEN [store |-> s, res |-> "not_found"]
       ELSE IF offset > Len(block)
       THEN [store |-> s, res |-> "panic"]
       ELSE [store |-> [s EXCEPT !.txn_cache =
                           MapPut(@, txn_id, MapPut(old, block_id, new_block))],
             res |-> "ok"]

\* Transact::rollback for Store
StoreRollback(s, txn_id) == [s EXCEPT !.txn_cache = MapDel(@, txn_id)]

(***************************************************************************)
(* Two transactions call new_block, append, insert_into, commit and        *)
(* rollback on one Store.                                                   *)
(***************************************************************************)
MaxStoreOps == 5

StoreData == {<<0>>, <<1>>}

StoreOffsets == {0, 1}

InitStore ==
    /\ cache = CacheNew(MaxSize)
    /\ fsys = [files |-> NoFiles, dirs |-> {CacheDir}]
    /\ overflow_checks = TRUE
    /\ handles = EmptyMap
    /\ last = [op |-> "new", res |-> "ok"]
    /\ listing = EmptyMap
    /\ mutated = EmptyMap
    /\ file_path = EmptyMap
    /\ nops = 0
    /\ phase = EmptyMap
    /\ created = EmptyMap
    /\ stale = {}
    /\ CoordIdle
    /\ TensorIdle
    /\ IndexIdleBut("store")
    /\ store = [op |-> "new", state |-> StoreStateNew, res |-> "ok", ncalls |-> 0]

\* a call `op` has answered res and left the Store in the state s
StoreAnswers(op, txn_id, block_id, s, res) ==
    /\ store.ncalls < MaxStoreOps
    /\ store' = [op |-> op, txn |-> txn_id, id |-> block_id, state |-> s,
                 res |-> res, ncalls |-> store.ncalls + 1]
    /\ UNCHANGED <<storeVars, coordVars, tensorVars, storeOnlyRest>>

StoreCallNewBlock ==
    \E txn_id \in Txns, block_id \in BlockIds, data \in StoreData :
        LET r == StoreNewBlock(store.state, txn_id, block_id, data)
        IN StoreAnswers("new_block", txn_id, block_id, r.store, r.res)

StoreCallAppend ==
    \E txn_id \in Txns, block_id \in BlockIds, data \in StoreData :
        LET r == StoreAppend(store.state, txn_id, block_id, data)
        IN StoreAnswers("append", txn_id, block_id, r.store, r.res)

StoreCallInsertInto ==
    \E txn_id \in Txns, block_id \in BlockIds, data \in StoreData,
       offset \in StoreOffsets :
        LET r == StoreInsertInto(store.state, txn_id, block_id, data, offset)
        IN StoreAnswers("insert_into", txn_id, block_id, r.store, r.res)

StoreCallCommit ==
    \E txn_id \in Txns :
        StoreAnswers("commit", txn_id, "", StoreCommit(store.state, txn_id), "ok")

StoreCallRollback ==
    \E txn_id \in Txns :
        StoreAnswers("rollback", txn_id, "", StoreRollback(store.state, txn_id), "ok")

NextStore ==
    \/ StoreCallNewBlock
    \/ StoreCallAppend
    \/ StoreCallInsertInto
    \/ StoreCallCommit
    \/ StoreCallRollback

SpecStore == InitStore /\ [][NextStore]_vars

(***************************************************************************)
(* Claims about the Store.                                                  *)
(***************************************************************************)
\* C28: in every state reached through new_block / append / insert_into /
\* commit / rollback, contains_block(T, id) is true exactly when
\* get_block(T, id) returns a block.
C28_StoreVisibility ==
    \A txn_id \in Txns, block_id \in BlockIds :
        StoreContainsBlock(store.state, txn_id, block_id)
            <=> StoreGetBlock(store.state, txn_id, block_id).some

(***************************************************************************)
(* A claim about the bounds a Slice inverts.                                *)
(***************************************************************************)
\* C30: for every Slice and every bounds b within the shape of the view,
\* invert_bounds(b) returns bounds of the source, and the source
\* coordinates they select are the invert_coord(c) of the coordinates c
\* that b selects.  Bounds are read as the code reads them: an axis they
\* do not name is taken whole.  Stated for the Slices made of At and In
\* bounds that name every axis of the source, those whose invert_coord
\* needs no look-up of indices.
C30_InvertBoundsAgrees ==
    (/\ rebase.op = "invert_bounds"
     /\ Len(rebase.t.bounds) = Len(rebase.t.source_shape)
     /\ \A k \in DOMAIN rebase.t.bounds : rebase.t.bounds[k].kind # "Of")
        => /\ rebase.out.res = "ok"
           /\ Len(rebase.out.bounds) <= Len(rebase.t.source_shape)
           /\ Affected(BoundsNormalize(rebase.out.bounds, rebase.t.source_shape))
                 = {SliceInvertCoord(rebase.t, c) :
                       c \in Affected(BoundsNormalize(rebase.coord, rebase.t.shape))}

(***************************************************************************)
(* The dense view of a sparse tensor (BlockListSparse, dense/mod.rs        *)
(* 696-836).  A SparseTensor is given by its shape, its dtype and the      *)
(* values at its filled coordinates, none of them zero.                     *)
(***************************************************************************)
\* the row-major order of two coordinates of one length
RECURSIVE CoordLess(_, _)
CoordLess(a, b) ==
    IF a = <<>> \/ b = <<>>
    THEN FALSE
    ELSE Head(a) < Head(b) \/ (Head(a) = Head(b) /\ CoordLess(Tail(a), Tail(b)))

\* SparseTensor::filled_range: the filled coordinates from start up to, and
\* without, end
SparseFilledRange(source, start, end) ==
    {c \in DOMAIN source.filled : ~CoordLess(c, start) /\ CoordLess(c, end)}

BlockListSparseNew(source) ==
    [source |-> source,
     coord_index |-> [x \in DOMAIN source.shape |->
                         ShapeSize(SubSeq(source.shape, x + 1, Len(source.shape)))]]

\* `(offset / index) % dim` for each axis
OffsetCoord(coord_index, shape, offset) ==
    [k \in DOMAIN shape |-> (offset \div coord_index[k]) % shape[k]]

\* Array::set: the values of the filled coordinates, scattered over the
\* block that starts at the offset `from`
ArraySetFilled(block, t, from, filled) ==
    [k \in DOMAIN block |->
        IF \E c \in filled : SumProducts(t.coord_index, c) = from + k - 1
        THEN t.source.filled[CHOOSE c \in filled :
                                SumProducts(t.coord_index, c) = from + k - 1]
        ELSE block[k]]

\* `(PER_BLOCK..size).step_by(PER_BLOCK)`
BlockOffsets(size) ==
    [k \in 1..(IF size > PER_BLOCK THEN ((size - 1 - PER_BLOCK) \div PER_BLOCK) + 1 ELSE 0)
        |-> k * PER_BLOCK]

BlockListSparseBlockStream(t) ==
    LET shape == t.source.shape
        block_offsets == BlockOffsets(ShapeSize(shape))
        one(offset) ==
            LET start == OffsetCoord(t.coord_index, shape, offset - PER_BLOCK)
                end == OffsetCoord(t.coord_index, shape, offset)
                filled == SparseFilledRange(t.source, start, end)
                block == ArrayConstant([class |-> t.source.dtype, v |-> 0], PER_BLOCK)
            IN IF filled = {}
               THEN block
               ELSE ArraySetFilled(block, t, offset - PER_BLOCK, filled)
    IN [k \in DOMAIN block_offsets |-> one(block_offsets[k])]

\* BlockList::value_stream, which BlockListSparse does not override
BlockListSparseValueStream(t) == Flatten(BlockListSparseBlockStream(t))

(***************************************************************************)
(* A sparse tensor is given; a caller views it as dense and streams its    *)
(* blocks or its values.                                                    *)
(***************************************************************************)
SparseValues == {1, 2}

\* the sparse tensors of a shape: some coordinates filled
SparseTensors(shape) ==
    UNION {[C -> SparseValues] : C \in SUBSET CoordsOf(shape)}

InitSparse ==
    /\ cache = CacheNew(MaxSize)
    /\ fsys = [files |-> NoFiles, dirs |-> {CacheDir}]
    /\ overflow_checks = TRUE
    /\ handles = EmptyMap
    /\ last = [op |-> "new", res |-> "ok"]
    /\ listing = EmptyMap
    /\ mutated = EmptyMap
    /\ file_path = EmptyMap
    /\ nops = 0
    /\ phase = EmptyMap
    /\ created = EmptyMap
    /\ stale = {}
    /\ CoordIdle
    /\ TensorIdle
    /\ IndexIdleBut("sparse")
    /\ \E shape \in DenseShapes :
         \E filled \in SparseTensors(shape) :
            sparse = [op |-> "given",
                      source |-> [shape |-> shape, dtype |-> "U8", filled |-> filled]]

SparseBlockStream ==
    /\ sparse.op = "given"
    /\ sparse' = [op |-> "block_stream", source |-> sparse.source,
                  out |-> BlockListSparseBlockStream(BlockListSparseNew(sparse.source))]
    /\ UNCHANGED <<storeVars, coordVars, tensorVars, sparseRest>>

SparseValueStream ==
    /\ sparse.op = "given"
    /\ sparse' = [op |-> "value_stream", source |-> sparse.source,
                  out |-> BlockListSparseValueStream(BlockListSparseNew(sparse.source))]
    /\ UNCHANGED <<storeVars, coordVars, tensorVars, sparseRest>>

NextSparse == SparseBlockStream \/ SparseValueStream

SpecSparse == InitSparse /\ [][NextSparse]_vars

(***************************************************************************)
(* A claim about the dense view of a sparse tensor.                         *)
(***************************************************************************)
\* C22: a sparse tensor filled at the coordinates C with the values V,
\* viewed as dense, streams exactly `size` values, the value at each
\* coordinate of C being its value in V and every other value zero.
C22_DenseOfSparse ==
    sparse.op = "value_stream"
        => LET source == sparse.source
               view == BlockListSparseNew(source)
           IN /\ Len(sparse.out) = ShapeSize(source.shape)
              /\ \A c \in CoordsOf(source.shape) :
                    sparse.out[SumProducts(view.coord_index, c) + 1]
                        = IF c \in DOMAIN source.filled THEN source.filled[c] ELSE 0

(***************************************************************************)
(* state/tensor/dense.rs: BlockTensor and the reductions of                *)
(* DenseTensorUnary.  A DenseTensorView is a shape with the value at each  *)
(* coordinate; a BlockTensor keeps its values in the blocks of a file.     *)
(***************************************************************************)
\* const BLOCK_SIZE, scaled down
BLOCK_SIZE == 2

\* per_block
per_block(dtype) == BLOCK_SIZE \div Width(dtype)

\* the coord_bounds of from_blocks
CoordBounds(shape) ==
    [k \in DOMAIN shape |-> ShapeSize(SubSeq(shape, k + 1, Len(shape)))]

\* BlockTensor::from_blocks: block i of the stream becomes block i of the file
BlockTensorFromBlocks(shape, dtype, blocks) ==
    [dtype |-> dtype,
     shape |-> shape,
     file |-> blocks,
     per_block |-> per_block(dtype),
     coord_bounds |-> CoordBounds(shape)]

\* BlockTensor::constant
BlockTensorConstant(shape, dtype, value) ==
    LET size == ShapeSize(shape)
        full == [k \in 1..(size \div per_block(dtype)) |-> [j \in 1..per_block(dtype) |-> value]]
        trailing_len == size % per_block(dtype)
    IN IF trailing_len > 0
       THEN BlockTensorFromBlocks(shape, dtype, Append(full, [j \in 1..trailing_len |-> value]))
       ELSE BlockTensorFromBlocks(shape, dtype, full)

\* BlockTensor::blocks, the block_stream of a BlockTensor
BlockTensorBlocks(t) ==
    [k \in 1..(ShapeSize(t.shape) \div t.per_block) |-> t.file[k]]

\* the value a BlockTensor holds at a coordinate: coord_block's offset,
\* then the block and the position within it
BlockTensorValueAt(t, coord) ==
    LET offset == SumProducts(t.coord_bounds, coord)
    IN t.file[(offset \div t.per_block) + 1][(offset % t.per_block) + 1]

\* a BlockTensor as a DenseTensorView
BlockTensorView(t) ==
    [dtype |-> t.dtype,
     shape |-> t.shape,
     at |-> [c \in CoordsOf(t.shape) |-> BlockTensorValueAt(t, c)]]

\* source.slice(bounds) for bounds that fix the leading axes at prefix
SlicePrefix(view, prefix) ==
    LET shape == SubSeq(view.shape, Len(prefix) + 1, Len(view.shape))
    IN [dtype |-> view.dtype,
        shape |-> shape,
        at |-> [c \in CoordsOf(shape) |-> view.at[prefix \o c]]]

\* source.slice((axis_bounds, coord)): all of axis 0 at the trailing coord
SliceAxis0(view, coord) ==
    [dtype |-> view.dtype,
     shape |-> <<view.shape[1]>>,
     at |-> [c \in CoordsOf(<<view.shape[1]>>) |-> view.at[c \o coord]]]

RECURSIVE SumSeq(_)
SumSeq(s) == IF s = <<>> THEN 0 ELSE Head(s) + SumSeq(Tail(s))

\* DenseTensorUnary::sum_all of a slice: the sum of the values it streams
SliceSumAll(view) ==
    SumSeq([k \in 1..view.shape[1] |-> view.at[<<k - 1>>]])

\* the coordinate stored at an offset
CoordAtOffset(shape, offset) ==
    CHOOSE c \in CoordsOf(shape) : SumProducts(CoordBounds(shape), c) = offset

\* BlockTensor::write_value for every (coord, value) of reduce_axis0: each
\* coordinate of the tensor receives the sum of its slice
BlockTensorWriteValues(t, values) ==
    [t EXCEPT !.file =
        [b \in DOMAIN t.file |->
            [j \in DOMAIN t.file[b] |->
                values[CoordAtOffset(t.shape, (b - 1) * t.per_block + (j - 1))]]]]

\* BlockTensor::write for every (bounds, value) of reduce_axis: the
\* coordinates under a prefix, in chunks of per_block, zipped with the blocks
\* value streams; a chunk without a block is not written
BlockTensorWrites(t, prefix_len, streams) ==
    [t EXCEPT !.file =
        [b \in DOMAIN t.file |->
            [j \in DOMAIN t.file[b] |->
                LET coord == CoordAtOffset(t.shape, (b - 1) * t.per_block + (j - 1))
                    prefix == SubSeq(coord, 1, prefix_len)
                    rest == SubSeq(coord, prefix_len + 1, Len(coord))
                    rest_shape == SubSeq(t.shape, prefix_len + 1, Len(t.shape))
                    index == SumProducts(CoordBounds(rest_shape), rest)
                    chunk == (index \div t.per_block) + 1
                IN IF chunk \in DOMAIN streams[prefix]
                   THEN streams[prefix][chunk][(index % t.per_block) + 1]
                   ELSE t.file[b][j]]]]

\* DenseTensorUnary::sum, with reduce_axis0 and reduce_axis
RECURSIVE DenseSum(_, _)
DenseSum(view, axis) ==
    IF axis >= Len(view.shape)
    THEN [res |-> "bad_request"]
    ELSE LET summed_ == BlockTensorConstant(SeqRemove(view.shape, axis), view.dtype, 0)
         IN IF axis = 0
            THEN IF ~(Len(view.shape) > 1)
                 THEN [res |-> "panic"]
                 ELSE [res |-> "ok",
                       tensor |-> BlockTensorWriteValues(summed_,
                           [coord \in CoordsOf(Tail(view.shape)) |->
                               SliceSumAll(SliceAxis0(view, coord))])]
            ELSE LET values == [prefix \in CoordsOf(SubSeq(view.shape, 1, axis)) |->
                                   DenseSum(SlicePrefix(view, prefix), 0)]
                 IN IF \E prefix \in DOMAIN values : values[prefix].res = "panic"
                    THEN [res |-> "panic"]
                    ELSE [res |-> "ok",
                          tensor |-> BlockTensorWrites(summed_, axis,
                              [prefix \in DOMAIN values |->
                                  BlockTensorBlocks(values[prefix].tensor)])]

(***************************************************************************)
(* The reduction of a BlockTensor filled from a values array.              *)
(***************************************************************************)
SumShapes == [1..1 -> {1, 2}] \cup [1..2 -> {1, 2}] \cup [1..3 -> {1, 2}]

\* a values array in blocks of n, the last one shorter
RECURSIVE Chunks(_, _)
Chunks(values, n) ==
    IF Len(values) <= n
    THEN IF values = <<>> THEN <<>> ELSE <<values>>
    ELSE <<SubSeq(values, 1, n)>> \o Chunks(SubSeq(values, n + 1, Len(values)), n)

InitSum ==
    /\ cache = CacheNew(MaxSize)
    /\ fsys = [files |-> NoFiles, dirs |-> {CacheDir}]
    /\ overflow_checks = TRUE
    /\ handles = EmptyMap
    /\ last = [op |-> "new", res |-> "ok"]
    /\ listing = EmptyMap
    /\ mutated = EmptyMap
    /\ file_path = EmptyMap
    /\ nops = 0
    /\ phase = EmptyMap
    /\ created = EmptyMap
    /\ stale = {}
    /\ CoordIdle
    /\ TensorIdle
    /\ IndexIdleBut("summed")
    /\ \E shape \in SumShapes :
         \E values \in [1..ShapeSize(shape) -> DenseValues] :
            summed = [op |-> "given",
                      values |-> values,
                      tensor |-> BlockTensorFromBlocks(shape, "U8",
                                    Chunks(values, per_block("U8")))]

\* sum(axis), for every axis of the tensor and the first one past them
Sum ==
    /\ summed.op = "given"
    /\ \E axis \in 0..Len(summed.tensor.shape) :
          summed' = [op |-> "sum", values |-> summed.values, tensor |-> summed.tensor,
                     axis |-> axis,
                     out |-> DenseSum(BlockTensorView(summed.tensor), axis)]
    /\ UNCHANGED <<storeVars, coordVars, tensorVars, summedRest>>

NextSum == Sum

SpecSum == InitSum /\ [][NextSum]_vars

\* V[prefix, k, suffix] of a values array laid out in row-major order
ValueOf(shape, values, coord) == values[SumProducts(CoordBounds(shape), coord) + 1]

\* C21: sum(a) of a dense tensor filled from V answers BadRequest for
\* a >= ndim, and otherwise returns a tensor of the shape with axis a removed
\* whose entry at prefix ++ suffix is the sum over k of V[prefix, k, suffix].
C21_SumReduces ==
    summed.op = "sum" =>
        LET shape == summed.tensor.shape
            axis == summed.axis
        IN IF axis >= Len(shape)
           THEN summed.out.res = "bad_request"
           ELSE /\ summed.out.res = "ok"
                /\ summed.out.tensor.shape = SeqRemove(shape, axis)
                /\ \A c \in CoordsOf(SeqRemove(shape, axis)) :
                      BlockTensorValueAt(summed.out.tensor, c)
                          = SumSeq([k \in 1..shape[axis + 1] |->
                                ValueOf(shape, summed.values,
                                    SubSeq(c, 1, axis) \o <<k - 1>>
                                        \o SubSeq(c, axis + 1, Len(c)))])

====
